---- MODULE Spec2Model ----
(***************************************************************************)
(* Model of the stock scanner's scoring engine (src/scanner.py):           *)
(*   - StockScanner.comprehensive_analysis and _perform_analysis, the      *)
(*     rule tables that turn the latest and previous indicator rows into   *)
(*     four category scores, a composite score, a signal and price levels; *)
(*   - StockScanner._calculate_supertrend, the fold over the bars that     *)
(*     yields the SuperTrend state and the two ratcheted bands.            *)
(*   - TradingBot.scan_all (src/bot.py), the loop that analyses every      *)
(*     ticker of a watchlist, and the score table of the help text;        *)
(*   - the watchlist commands and _split_message of src/bot.py, dx of      *)
(*     src/utils/indicators.py, job_scan_and_notify of src/runner.py with  *)
(*     send_signal of src/telegram_notify.py, and the reversal scan that   *)
(*     the runner imports.                                                 *)
(*                                                                         *)
(* Specifications: Spec (one call after another on changing data),         *)
(* SpecRules (one call on every combination of one category's columns),    *)
(* SpecRuns (a recorded sequence of calls on one scanner), SpecST (the     *)
(* SuperTrend loop), SpecScan (a watchlist scan), SpecReversal (one        *)
(* reversal scan), SpecDX (one dx call), SpecWatch (watchlist commands one *)
(* at a time), SpecOverlap (watchlist commands with suspended /add         *)
(* handlers), SpecJobs (scheduled notification runs) and SpecSplit (one    *)
(* _split_message call).                                                   *)
(*                                                                         *)
(* Indicator values are floating-point numbers in the program.  They are   *)
(* modelled as exact rationals with the three special values of IEEE       *)
(* arithmetic (not-a-number, +infinity, -infinity), so that a comparison   *)
(* against not-a-number is false and a division by zero yields an          *)
(* infinity or not-a-number, as numpy.float64 does.                        *)
(***************************************************************************)
EXTENDS Integers, Sequences, FiniteSets, TLC

VARIABLES
    fetched,      \* what the download and the indicator library do in this call
    latest,       \* df.iloc[-1] after _calculate_all_indicators
    prev,         \* df.iloc[-2] after _calculate_all_indicators
    ticker,       \* the ticker argument of the call
    result,       \* return value of the last comprehensive_analysis call
    steps,        \* the internal steps the last call executed, in order
    nCalls,       \* number of comprehensive_analysis calls made so far
    bars,         \* SuperTrend: the df passed in, one [High, Low, Close, ATR] per bar
    i,            \* SuperTrend: loop index (1-based: bar i is df.iloc[i-1])
    upperband,    \* SuperTrend: upper band per bar (ratcheted in place)
    lowerband,    \* SuperTrend: lower band per bar (ratcheted in place)
    supertrend,   \* SuperTrend: state per bar, TRUE = Bullish
    stDone,       \* SuperTrend: the columns were written back to df
    scanner,      \* the fields of the StockScanner object
    history,      \* the calls made so far: arguments, data fetched, return value
    watchlist,    \* scan_all: user_watchlists[user_id]
    scanPos,      \* scan_all: index of the ticker the loop is at (1-based)
    results,      \* scan_all: the list 'results'
    visited,      \* scan_all: per iteration, the ticker and what its body yielded
    scanStatus,   \* scan_all: position of the handler
    revIn,        \* scan_universe: the indicator values of one symbol's bars
    revOut,       \* scan_universe: the signals it returned
    ohlc,         \* dx: the df passed in, one [high, low, close] per bar
    dxOut,        \* dx: the series it computed (plus_di, minus_di, dx, adx)
    user_watchlists, \* bot.py: the module-level dict user id -> list
    suspended,    \* bot.py: /add handlers waiting at validate_ticker
    lastCmd,      \* bot.py: the command handled last and what it saw
    store,        \* runner.py: the contents of sent_signals.json
    sent,         \* runner.py: the dict 'sent' of the run under way
    signals,      \* runner.py: the list scan_universe returned to the run
    sigPos,       \* runner.py: index of the signal the loop is at (1-based)
    sendLog,      \* runner.py: every send_signal call so far and its outcome
    jobStatus,    \* runner.py: position of job_scan_and_notify
    nJobs,        \* runner.py: number of runs started so far
    text,         \* _split_message: the local 'text'
    max_length,   \* _split_message: the argument max_length
    chunks,       \* _split_message: the list 'chunks'
    splitStatus,  \* _split_message: position in the function
    text0         \* _split_message: the argument text as passed in

vars == <<fetched, latest, prev, ticker, result, steps, nCalls,
          bars, i, upperband, lowerband, supertrend, stDone,
          scanner, history, watchlist, scanPos, results, visited, scanStatus,
          revIn, revOut, ohlc, dxOut, user_watchlists, suspended, lastCmd,
          store, sent, signals, sigPos, sendLog, jobStatus, nJobs,
          text, max_length, chunks, splitStatus, text0>>

scoreVars == <<fetched, latest, prev, ticker, result, steps, nCalls>>
stVars == <<bars, i, upperband, lowerband, supertrend, stDone>>
runVars == <<scanner, history>>
scanVars == <<watchlist, scanPos, results, visited, scanStatus>>
revVars == <<revIn, revOut>>
dxVars == <<ohlc, dxOut>>
watchVars == <<user_watchlists, suspended, lastCmd>>
jobVars == <<store, sent, signals, sigPos, sendLog, jobStatus, nJobs>>
splitVars == <<text, max_length, chunks, splitStatus, text0>>
botVars == <<revVars, dxVars, watchVars, jobVars, splitVars>>
engineVars == <<scoreVars, stVars, runVars, scanVars>>

(***************************************************************************)
(* Bounds of the model.                                                    *)
(***************************************************************************)
MaxCalls == 1
MaxBars == 4

(***************************************************************************)
(* Floating-point values: [k, n, d] with k in {"fin","nan","pinf","ninf"}, *)
(* a finite value being the reduced fraction n/d, d > 0.                   *)
(***************************************************************************)
Abs(x) == IF x < 0 THEN -x ELSE x

RECURSIVE GCD(_, _)
GCD(a, b) == IF b = 0 THEN a ELSE GCD(b, a % b)

NaN == [k |-> "nan", n |-> 0, d |-> 1]
PInf == [k |-> "pinf", n |-> 1, d |-> 1]
NInf == [k |-> "ninf", n |-> -1, d |-> 1]

Fin(n, d) ==
    LET g == GCD(Abs(n), d)
    IN  [k |-> "fin", n |-> n \div g, d |-> d \div g]

R(x) == [k |-> "fin", n |-> x, d |-> 1]

IsNaN(a) == a.k = "nan"
IsFin(a) == a.k = "fin"

\* sign of a value that is not not-a-number
Sgn(a) == IF a.n > 0 THEN 1 ELSE IF a.n < 0 THEN -1 ELSE 0

FNeg(a) ==
    CASE a.k = "nan" -> NaN
      [] a.k = "pinf" -> NInf
      [] a.k = "ninf" -> PInf
      [] OTHER -> [k |-> "fin", n |-> -a.n, d |-> a.d]

FAdd(a, b) ==
    IF IsNaN(a) \/ IsNaN(b) THEN NaN
    ELSE IF IsFin(a) /\ IsFin(b) THEN Fin(a.n * b.d + b.n * a.d, a.d * b.d)
    ELSE IF IsFin(a) THEN b
    ELSE IF IsFin(b) THEN a
    ELSE IF a.k = b.k THEN a
    ELSE NaN

FSub(a, b) == FAdd(a, FNeg(b))

FMul(a, b) ==
    IF IsNaN(a) \/ IsNaN(b) THEN NaN
    ELSE IF IsFin(a) /\ IsFin(b) THEN Fin(a.n * b.n, a.d * b.d)
    ELSE IF Sgn(a) * Sgn(b) = 0 THEN NaN
    ELSE IF Sgn(a) * Sgn(b) > 0 THEN PInf
    ELSE NInf

\* true division as numpy.float64 does it: x/0 is an infinity, 0/0 is nan
FDiv(a, b) ==
    IF IsNaN(a) \/ IsNaN(b) THEN NaN
    ELSE IF IsFin(a) /\ IsFin(b) THEN
        IF b.n = 0
        THEN (IF a.n = 0 THEN NaN ELSE IF a.n > 0 THEN PInf ELSE NInf)
        ELSE Fin(a.n * b.d * Sgn(b), a.d * Abs(b.n))
    ELSE IF IsFin(a) THEN R(0)
    ELSE IF IsFin(b) THEN
        (IF Sgn(a) * (IF b.n < 0 THEN -1 ELSE 1) > 0 THEN PInf ELSE NInf)
    ELSE NaN

\* comparisons: every comparison with not-a-number is FALSE
FLt(a, b) ==
    /\ ~IsNaN(a)
    /\ ~IsNaN(b)
    /\ IF IsFin(a) /\ IsFin(b) THEN a.n * b.d < b.n * a.d
       ELSE IF a.k = b.k THEN FALSE
       ELSE a.k = "ninf" \/ b.k = "pinf"

FGt(a, b) == FLt(b, a)

FLe(a, b) ==
    /\ ~IsNaN(a)
    /\ ~IsNaN(b)
    /\ ~FLt(b, a)

FGe(a, b) == FLe(b, a)

(***************************************************************************)
(* Number formatting of the f-strings: "{x:.1f}", "{x:.2f}", "{x:,.0f}".   *)
(* A finite value is rounded to the given number of decimals, a tie going  *)
(* to the even digit; nan and the infinities print as Python prints them.  *)
(***************************************************************************)
RoundHalfEven(n, d) ==
    LET q == n \div d
        r == n % d
    IN  IF 2 * r < d THEN q
        ELSE IF 2 * r > d THEN q + 1
        ELSE IF q % 2 = 0 THEN q ELSE q + 1

Pow10(p) == IF p = 0 THEN 1 ELSE IF p = 1 THEN 10 ELSE 100

Pad3(x) ==
    IF x < 10 THEN "00" \o ToString(x)
    ELSE IF x < 100 THEN "0" \o ToString(x)
    ELSE ToString(x)

RECURSIVE Grouped(_)
Grouped(x) ==
    IF x < 1000 THEN ToString(x)
    ELSE Grouped(x \div 1000) \o "," \o Pad3(x % 1000)

FracDigits(f, p) ==
    IF p = 0 THEN ""
    ELSE IF p = 1 THEN "." \o ToString(f)
    ELSE IF f < 10 THEN ".0" \o ToString(f)
    ELSE "." \o ToString(f)

Format(a, p, comma) ==
    CASE a.k = "nan" -> "nan"
      [] a.k = "pinf" -> "inf"
      [] a.k = "ninf" -> "-inf"
      [] OTHER ->
            LET q == RoundHalfEven(Abs(a.n) * Pow10(p), a.d)
                ip == q \div Pow10(p)
                fp == q % Pow10(p)
            IN  (IF a.n < 0 THEN "-" ELSE "")
                \o (IF comma THEN Grouped(ip) ELSE ToString(ip))
                \o FracDigits(fp, p)

(***************************************************************************)
(* Strings that the code searches or rewrites are sequences of characters. *)
(***************************************************************************)
IsSubstring(p, t) ==
    \E j \in 1..(Len(t) - Len(p) + 1) : SubSeq(t, j, j + Len(p) - 1) = p

EndsWith(t, suf) ==
    /\ Len(t) >= Len(suf)
    /\ SubSeq(t, Len(t) - Len(suf) + 1, Len(t)) = suf

\* str.replace(pat, ''): every occurrence of pat removed, left to right
RECURSIVE RemoveAll(_, _)
RemoveAll(t, pat) ==
    IF Len(t) < Len(pat) THEN t
    ELSE IF SubSeq(t, 1, Len(pat)) = pat
         THEN RemoveAll(SubSeq(t, Len(pat) + 1, Len(t)), pat)
         ELSE <<Head(t)>> \o RemoveAll(Tail(t), pat)

DotJK == <<".", "J", "K">>

SignalChars(s) ==
    CASE s = "STRONG BUY" -> <<"S", "T", "R", "O", "N", "G", " ", "B", "U", "Y">>
      [] s = "BUY" -> <<"B", "U", "Y">>
      [] s = "HOLD" -> <<"H", "O", "L", "D">>
      [] s = "SELL" -> <<"S", "E", "L", "L">>
      [] s = "STRONG SELL" -> <<"S", "T", "R", "O", "N", "G", " ", "S", "E", "L", "L">>

(***************************************************************************)
(* _perform_analysis: trend rules.  Each rule yields its contribution to   *)
(* the score; the *Signals operators yield the annotations it appends.     *)
(* The markers (+), (-), (o), (!) stand for the green, red, white and      *)
(* warning symbols of the annotation texts.                                *)
(***************************************************************************)
\* variant: the 50-period average left out of the stack
EMAAlignmentNoEMA50(l) ==
    IF FGt(l.Close, l.EMA_9) /\ FGt(l.EMA_9, l.EMA_20) THEN 3
    ELSE IF FLt(l.Close, l.EMA_9) /\ FLt(l.EMA_9, l.EMA_20) THEN -3
    ELSE 0

EMAAlignment(l) ==
    IF FGt(l.Close, l.EMA_9) /\ FGt(l.EMA_9, l.EMA_20) /\ FGt(l.EMA_20, l.EMA_50)
    THEN 3
    ELSE IF FLt(l.Close, l.EMA_9) /\ FLt(l.EMA_9, l.EMA_20) /\ FLt(l.EMA_20, l.EMA_50)
    THEN -3
    ELSE 0

ADXStrength(l) ==
    IF FGt(l.ADX, R(25))
    THEN (IF FGt(l.ADX_POS, l.ADX_NEG) THEN 2 ELSE -2)
    ELSE 0

SuperTrendRule(l) == IF l.SuperTrend THEN 1 ELSE -1

MACDRule(l, p) ==
    IF FLt(p.MACD, p.MACD_Signal) /\ FGt(l.MACD, l.MACD_Signal) THEN 2
    ELSE IF FGt(p.MACD, p.MACD_Signal) /\ FLt(l.MACD, l.MACD_Signal) THEN -2
    ELSE 0

TrendScore(l, p) ==
    EMAAlignment(l) + ADXStrength(l) + SuperTrendRule(l) + MACDRule(l, p)

TrendSignals(l, p) ==
    (IF EMAAlignment(l) = 3 THEN <<"(+) Perfect EMA alignment - Strong uptrend">>
     ELSE IF EMAAlignment(l) = -3 THEN <<"(-) Bearish EMA alignment - Strong downtrend">>
     ELSE <<>>)
    \o (IF ADXStrength(l) = 2
        THEN <<"(+) Strong uptrend (ADX: " \o Format(l.ADX, 1, FALSE) \o ")">>
        ELSE IF ADXStrength(l) = -2
        THEN <<"(-) Strong downtrend (ADX: " \o Format(l.ADX, 1, FALSE) \o ")">>
        ELSE <<"(o) Weak trend (ADX: " \o Format(l.ADX, 1, FALSE) \o ")">>)
    \o (IF l.SuperTrend THEN <<"(+) SuperTrend: Bullish">>
        ELSE <<"(-) SuperTrend: Bearish">>)
    \o (IF MACDRule(l, p) = 2 THEN <<"(+) MACD Bullish Crossover">>
        ELSE IF MACDRule(l, p) = -2 THEN <<"(-) MACD Bearish Crossover">>
        ELSE <<>>)

(***************************************************************************)
(* _perform_analysis: momentum rules.                                      *)
(***************************************************************************)
\* variant: the two contributions exchanged
RSIRuleInverted(l) ==
    IF FLt(l.RSI, R(30)) THEN -2
    ELSE IF FGt(l.RSI, R(70)) THEN 2
    ELSE 0

RSIRule(l) ==
    IF FLt(l.RSI, R(30)) THEN 2
    ELSE IF FGt(l.RSI, R(70)) THEN -2
    ELSE 0

\* variant: %K against its thresholds only, %D not read
StochasticRuleNoCross(l) ==
    IF FLt(l.STOCH_K, R(20)) THEN 2
    ELSE IF FGt(l.STOCH_K, R(80)) THEN -2
    ELSE 0

StochasticRule(l) ==
    IF FLt(l.STOCH_K, R(20)) /\ FGt(l.STOCH_K, l.STOCH_D) THEN 2
    ELSE IF FGt(l.STOCH_K, R(80)) /\ FLt(l.STOCH_K, l.STOCH_D) THEN -2
    ELSE 0

CCIRule(l) ==
    IF FLt(l.CCI, R(-100)) THEN 1
    ELSE IF FGt(l.CCI, R(100)) THEN -1
    ELSE 0

WilliamsRule(l) ==
    IF FLt(l.WILLIAMS_R, R(-80)) THEN 1
    ELSE IF FGt(l.WILLIAMS_R, R(-20)) THEN -1
    ELSE 0

MomentumScore(l) ==
    RSIRule(l) + StochasticRule(l) + CCIRule(l) + WilliamsRule(l)

MomentumSignals(l) ==
    (IF RSIRule(l) = 2 THEN <<"(+) RSI Oversold (" \o Format(l.RSI, 1, FALSE) \o ")">>
     ELSE IF RSIRule(l) = -2
     THEN <<"(-) RSI Overbought (" \o Format(l.RSI, 1, FALSE) \o ")">>
     ELSE IF FLe(R(40), l.RSI) /\ FLe(l.RSI, R(60))
     THEN <<"(o) RSI Neutral (" \o Format(l.RSI, 1, FALSE) \o ")">>
     ELSE <<>>)
    \o (IF StochasticRule(l) = 2 THEN <<"(+) Stochastic oversold & turning up">>
        ELSE IF StochasticRule(l) = -2 THEN <<"(-) Stochastic overbought & turning down">>
        ELSE <<>>)
    \o (IF CCIRule(l) = 1 THEN <<"(+) CCI Oversold">>
        ELSE IF CCIRule(l) = -1 THEN <<"(-) CCI Overbought">>
        ELSE <<>>)
    \o (IF WilliamsRule(l) = 1 THEN <<"(+) Williams %R Oversold">>
        ELSE IF WilliamsRule(l) = -1 THEN <<"(-) Williams %R Overbought">>
        ELSE <<>>)

(***************************************************************************)
(* _perform_analysis: volume rules.                                        *)
(***************************************************************************)
VolumeVsAverage(l) ==
    IF FGt(l.Volume, FMul(l.Volume_SMA, Fin(3, 2))) THEN 2
    ELSE IF FLt(l.Volume, FMul(l.Volume_SMA, Fin(1, 2))) THEN -1
    ELSE 0

\* variant: nothing subtracted when OBV is not above its average
OBVTrendNoPenalty(l) == IF FGt(l.OBV, l.OBV_EMA) THEN 1 ELSE 0

OBVTrend(l) == IF FGt(l.OBV, l.OBV_EMA) THEN 1 ELSE -1

MFIRule(l) ==
    IF FLt(l.MFI, R(20)) THEN 1
    ELSE IF FGt(l.MFI, R(80)) THEN -1
    ELSE 0

VolumeScore(l) == VolumeVsAverage(l) + OBVTrend(l) + MFIRule(l)

VolumeSignals(l) ==
    (IF VolumeVsAverage(l) = 2 THEN <<"(+) High volume confirmation">>
     ELSE IF VolumeVsAverage(l) = -1 THEN <<"(-) Low volume - weak signal">>
     ELSE <<>>)
    \o (IF OBVTrend(l) = 1 THEN <<"(+) OBV trending up">>
        ELSE <<"(-) OBV trending down">>)
    \o (IF MFIRule(l) = 1 THEN <<"(+) MFI Oversold">>
        ELSE IF MFIRule(l) = -1 THEN <<"(-) MFI Overbought">>
        ELSE <<>>)

(***************************************************************************)
(* _perform_analysis: volatility rules and distance to the price levels.   *)
(***************************************************************************)
BollingerRule(l) ==
    IF FLt(l.Close, l.BB_Low) THEN 2
    ELSE IF FGt(l.Close, l.BB_High) THEN -2
    ELSE 0

atr_pct(l) == FMul(FDiv(l.ATR, l.Close), R(100))

dist_to_resistance(l) ==
    FMul(FDiv(FSub(l.Resistance, l.Close), l.Close), R(100))

dist_to_support(l) ==
    FMul(FDiv(FSub(l.Close, l.Support), l.Close), R(100))

NearSupport(l) == IF FLt(dist_to_support(l), R(2)) THEN 1 ELSE 0

\* variant: the resistance rule skipped when the support rule matched
NearResistanceExclusive(l) ==
    IF NearSupport(l) = 1 THEN 0
    ELSE IF FLt(dist_to_resistance(l), R(2)) THEN -1 ELSE 0

NearResistance(l) == IF FLt(dist_to_resistance(l), R(2)) THEN -1 ELSE 0

VolatilityScore(l) == BollingerRule(l) + NearSupport(l) + NearResistance(l)

VolatilitySignals(l) ==
    (IF BollingerRule(l) = 2 THEN <<"(+) Price below BB lower - oversold">>
     ELSE IF BollingerRule(l) = -2 THEN <<"(-) Price above BB upper - overbought">>
     ELSE <<>>)
    \o (IF FLt(l.BB_Width, R(5))
        THEN <<"(o) Low volatility - potential breakout soon">> ELSE <<>>)
    \o (IF FGt(atr_pct(l), R(3))
        THEN <<"(!) High volatility (ATR: " \o Format(atr_pct(l), 2, FALSE) \o "%)">>
        ELSE <<>>)
    \o (IF NearSupport(l) = 1 THEN <<"(+) Near support level">> ELSE <<>>)
    \o (IF NearResistance(l) = -1 THEN <<"(-) Near resistance level">> ELSE <<>>)

(***************************************************************************)
(* _perform_analysis: composite score, signal, price levels and labels.    *)
(***************************************************************************)
\* variant: the volatility category left out of the sum
CompositeScoreNoVolatility(trend_score, momentum_score, volume_score, volatility_score) ==
    trend_score + momentum_score + volume_score

CompositeScore(trend_score, momentum_score, volume_score, volatility_score) ==
    trend_score + momentum_score + volume_score + volatility_score

\* variant: the thresholds taken as exclusive
TradingSignalStrict(total_score) ==
    IF total_score > 10 THEN "STRONG BUY"
    ELSE IF total_score > 5 THEN "BUY"
    ELSE IF total_score > -4 THEN "HOLD"
    ELSE IF total_score > -9 THEN "SELL"
    ELSE "STRONG SELL"

TradingSignal(total_score) ==
    IF total_score >= 10 THEN "STRONG BUY"
    ELSE IF total_score >= 5 THEN "BUY"
    ELSE IF total_score >= -4 THEN "HOLD"
    ELSE IF total_score >= -9 THEN "SELL"
    ELSE "STRONG SELL"

\* variant: the signal compared for equality with 'BUY'
IsBuySignalExact(signal) == SignalChars(signal) = <<"B", "U", "Y">>

\* 'BUY' in analysis['trading_signal']
IsBuySignal(signal) == IsSubstring(<<"B", "U", "Y">>, SignalChars(signal))

\* variant: the target one ATR above the close
TargetOneATR(l) == FAdd(l.Close, l.ATR)

Target(l) == FAdd(l.Close, FMul(R(2), l.ATR))

\* variant: the ATR added to the support
StopLossAdded(l) == FAdd(l.Support, l.ATR)

StopLoss(l) == FSub(l.Support, l.ATR)

RiskReward(l) ==
    FDiv(FSub(Target(l), l.Close), FSub(l.Close, StopLoss(l)))

PriceLevels(l, signal) ==
    IF IsBuySignal(signal)
    THEN [entry_point |-> "Rp " \o Format(l.Support, 0, TRUE) \o " - "
                               \o Format(l.Close, 0, TRUE),
          target_price |-> "Rp " \o Format(Target(l), 0, TRUE),
          stop_loss |-> "Rp " \o Format(StopLoss(l), 0, TRUE),
          risk_reward |-> "1:" \o Format(RiskReward(l), 2, FALSE)]
    ELSE [entry_point |-> "N/A", target_price |-> "N/A",
          stop_loss |-> "N/A", risk_reward |-> "N/A"]

\* variant: the thresholds taken as exclusive
TrendStrengthStrict(trend_score) ==
    IF trend_score > 4 THEN "Strong Uptrend"
    ELSE IF trend_score > 1 THEN "Weak Uptrend"
    ELSE IF trend_score > -3 THEN "Sideways"
    ELSE "Downtrend"

TrendStrength(trend_score) ==
    IF trend_score >= 4 THEN "Strong Uptrend"
    ELSE IF trend_score >= 1 THEN "Weak Uptrend"
    ELSE IF trend_score >= -3 THEN "Sideways"
    ELSE "Downtrend"

MomentumStatus(momentum_score) ==
    IF momentum_score >= 3 THEN "Bullish"
    ELSE IF momentum_score <= -3 THEN "Bearish"
    ELSE "Neutral"

VolumeStatus(volume_score) ==
    IF volume_score >= 2 THEN "Strong"
    ELSE IF volume_score <= -1 THEN "Weak"
    ELSE "Normal"

\* the dict _perform_analysis returns for the rows l = df.iloc[-1], p = df.iloc[-2]
PerformAnalysis(l, p, t) ==
    LET trend_score == TrendScore(l, p)
        momentum_score == MomentumScore(l)
        volume_score == VolumeScore(l)
        volatility_score == VolatilityScore(l)
        total_score == CompositeScore(trend_score, momentum_score,
                                      volume_score, volatility_score)
        signal == TradingSignal(total_score)
        levels == PriceLevels(l, signal)
    IN  [kind |-> "analysis",
         ticker |-> RemoveAll(t, DotJK),
         price |-> l.Close,
         volume |-> l.Volume,
         change |-> FMul(FDiv(FSub(l.Close, p.Close), p.Close), R(100)),
         adx |-> l.ADX,
         supertrend_signal |-> IF l.SuperTrend THEN "Bullish" ELSE "Bearish",
         rsi |-> l.RSI,
         stochastic |-> l.STOCH_K,
         cci |-> l.CCI,
         obv_trend |-> IF OBVTrend(l) = 1 THEN "Up" ELSE "Down",
         mfi |-> l.MFI,
         resistance |-> l.Resistance,
         support |-> l.Support,
         total_score |-> total_score,
         trend_score |-> trend_score,
         momentum_score |-> momentum_score,
         volume_score |-> volume_score,
         volatility_score |-> volatility_score,
         trading_signal |-> signal,
         entry_point |-> levels.entry_point,
         target_price |-> levels.target_price,
         stop_loss |-> levels.stop_loss,
         risk_reward |-> levels.risk_reward,
         trend_strength |-> TrendStrength(trend_score),
         momentum_status |-> MomentumStatus(momentum_score),
         volume_status |-> VolumeStatus(volume_score),
         key_signals |-> TrendSignals(l, p) \o MomentumSignals(l)
                           \o VolumeSignals(l) \o VolatilitySignals(l)]

(***************************************************************************)
(* comprehensive_analysis.  The fetch (yfinance) and the indicator library *)
(* (ta) are outside the repository: what they deliver is an input, f being *)
(* the outcome of the fetch and l, p the last two rows of the frame.       *)
(***************************************************************************)
None == [kind |-> "None"]

\* an exception propagating out of a step
Raised == [kind |-> "exception"]

NoData == [outcome |-> "none", len |-> 0, ind |-> "ok"]

\* ticker gets ".JK" appended when it lacks it and has four characters
WithJK(t) == IF ~EndsWith(t, DotJK) /\ Len(t) = 4 THEN t \o DotJK ELSE t

\* _get_stock_data: None when the download raised or the frame is empty
GetStockData(f) ==
    IF f.outcome = "raise" THEN NoData
    ELSE IF f.len = 0 THEN NoData
    ELSE f

MinBars == 60

\* variant: only the missing frame is rejected
TooShortNoLength(df) == df = NoData

\* df is None or len(df) < 60
TooShort(df) == df = NoData \/ df.len < MinBars

\* variant: a failed download attempted a second time
TryStepsRetry(f) ==
    IF GetStockData(f) = NoData THEN <<"fetch", "fetch">>
    ELSE IF TooShort(GetStockData(f)) THEN <<"fetch">>
    ELSE IF GetStockData(f).ind = "raise" THEN <<"fetch", "indicators">>
    ELSE <<"fetch", "indicators", "analysis">>

\* the steps the try block runs before it returns or raises
TrySteps(f) ==
    IF TooShort(GetStockData(f)) THEN <<"fetch">>
    ELSE IF GetStockData(f).ind = "raise" THEN <<"fetch", "indicators">>
    ELSE <<"fetch", "indicators", "analysis">>

\* the body of the try block: the value it returns, or the exception
TryBody(t, f, l, p) ==
    IF TooShort(GetStockData(f)) THEN None
    ELSE IF GetStockData(f).ind = "raise" THEN Raised
    ELSE PerformAnalysis(l, p, WithJK(t))

\* variant: on an exception the value of the previous call is returned
CaughtStale(v) == IF v.kind = "exception" THEN result ELSE v

\* except Exception: log and return None
Caught(v) == IF v.kind = "exception" THEN None ELSE v

ComprehensiveAnalysisCall(t, f, l, p) == Caught(TryBody(t, f, l, p))

\* StockScanner.__init__
NewScanner == [lookback_period |-> "6mo", interval |-> "1d"]

\* no scan under way
ScanIdle ==
    /\ watchlist = <<>>
    /\ scanPos = 0
    /\ results = <<>>
    /\ visited = <<>>
    /\ scanStatus = "idle"

\* no reversal scan made
RevIdle == revIn = <<>> /\ revOut = <<>>

\* no dx call made
DXIdle == ohlc = [df |-> <<>>, n |-> 1] /\ dxOut = <<>>

\* the bot just started: no user known, no handler running
WatchIdle ==
    /\ user_watchlists = [u \in {} |-> <<>>]
    /\ suspended = <<>>
    /\ lastCmd = <<>>

\* the scheduler has not run the job yet and no dedupe file exists
JobIdle ==
    /\ store = {}
    /\ sent = {}
    /\ signals = <<>>
    /\ sigPos = 0
    /\ sendLog = <<>>
    /\ jobStatus = "idle"
    /\ nJobs = 0

\* no _split_message call made
SplitIdle ==
    /\ text = <<>>
    /\ max_length = 1
    /\ chunks = <<>>
    /\ splitStatus = "idle"
    /\ text0 = <<>>

BotIdle == RevIdle /\ DXIdle /\ WatchIdle /\ JobIdle /\ SplitIdle

(***************************************************************************)
(* Input data.  The frames a call can see: a few whole frames to start     *)
(* from, and the values one group of columns (the columns one rule reads)  *)
(* can take in the next fetch.  Prices are positive, the rolling support   *)
(* is at most the close and the rolling resistance at least the close,     *)
(* the lower Bollinger band is at most the upper one; any indicator may be *)
(* not-a-number.                                                           *)
(***************************************************************************)
BullLatest ==
    [Close |-> R(100), Volume |-> R(1000),
     EMA_9 |-> R(98), EMA_20 |-> R(96), EMA_50 |-> R(94),
     ADX |-> R(30), ADX_POS |-> R(30), ADX_NEG |-> R(10),
     SuperTrend |-> TRUE, MACD |-> R(1), MACD_Signal |-> R(0),
     RSI |-> R(50), STOCH_K |-> R(50), STOCH_D |-> R(50),
     CCI |-> R(0), WILLIAMS_R |-> R(-50),
     Volume_SMA |-> R(500), OBV |-> R(10), OBV_EMA |-> R(5), MFI |-> R(50),
     BB_Low |-> R(90), BB_High |-> R(110), BB_Width |-> R(20),
     ATR |-> R(2), Resistance |-> R(110), Support |-> R(95)]

BullPrev == [Close |-> R(98), MACD |-> R(0), MACD_Signal |-> R(1)]

BearLatest ==
    [Close |-> R(100), Volume |-> R(200),
     EMA_9 |-> R(102), EMA_20 |-> R(104), EMA_50 |-> R(106),
     ADX |-> R(30), ADX_POS |-> R(10), ADX_NEG |-> R(30),
     SuperTrend |-> FALSE, MACD |-> R(0), MACD_Signal |-> R(1),
     RSI |-> R(75), STOCH_K |-> R(90), STOCH_D |-> R(95),
     CCI |-> R(150), WILLIAMS_R |-> R(-10),
     Volume_SMA |-> R(500), OBV |-> R(5), OBV_EMA |-> R(10), MFI |-> R(85),
     BB_Low |-> R(90), BB_High |-> R(99), BB_Width |-> R(4),
     ATR |-> R(4), Resistance |-> R(101), Support |-> R(95)]

BearPrev == [Close |-> R(125), MACD |-> R(1), MACD_Signal |-> R(0)]

FlatLatest ==
    [Close |-> R(100), Volume |-> R(500),
     EMA_9 |-> R(100), EMA_20 |-> R(100), EMA_50 |-> R(100),
     ADX |-> R(20), ADX_POS |-> R(10), ADX_NEG |-> R(10),
     SuperTrend |-> TRUE, MACD |-> R(0), MACD_Signal |-> R(0),
     RSI |-> R(50), STOCH_K |-> R(50), STOCH_D |-> R(50),
     CCI |-> R(0), WILLIAMS_R |-> R(-50),
     Volume_SMA |-> R(500), OBV |-> R(10), OBV_EMA |-> R(5), MFI |-> R(50),
     BB_Low |-> R(90), BB_High |-> R(110), BB_Width |-> R(20),
     ATR |-> R(2), Resistance |-> R(110), Support |-> R(95)]

FlatPrev == [Close |-> R(100), MACD |-> R(0), MACD_Signal |-> R(0)]

\* a mild downtrend: composite score -8
WeakLatest ==
    [Close |-> R(100), Volume |-> R(200),
     EMA_9 |-> R(102), EMA_20 |-> R(104), EMA_50 |-> R(106),
     ADX |-> R(20), ADX_POS |-> R(10), ADX_NEG |-> R(30),
     SuperTrend |-> FALSE, MACD |-> R(0), MACD_Signal |-> R(1),
     RSI |-> R(75), STOCH_K |-> R(50), STOCH_D |-> R(50),
     CCI |-> R(0), WILLIAMS_R |-> R(-50),
     Volume_SMA |-> R(500), OBV |-> R(5), OBV_EMA |-> R(10), MFI |-> R(50),
     BB_Low |-> R(90), BB_High |-> R(110), BB_Width |-> R(20),
     ATR |-> R(2), Resistance |-> R(110), Support |-> R(95)]

WeakPrev == [Close |-> R(100), MACD |-> R(0), MACD_Signal |-> R(1)]

\* a four-digit price, in uptrend
BigLatest ==
    [Close |-> R(9000), Volume |-> R(1000),
     EMA_9 |-> R(8900), EMA_20 |-> R(8800), EMA_50 |-> R(8700),
     ADX |-> R(30), ADX_POS |-> R(30), ADX_NEG |-> R(10),
     SuperTrend |-> TRUE, MACD |-> R(1), MACD_Signal |-> R(0),
     RSI |-> R(50), STOCH_K |-> R(50), STOCH_D |-> R(50),
     CCI |-> R(0), WILLIAMS_R |-> R(-50),
     Volume_SMA |-> R(500), OBV |-> R(10), OBV_EMA |-> R(5), MFI |-> R(50),
     BB_Low |-> R(8500), BB_High |-> R(9500), BB_Width |-> R(11),
     ATR |-> R(175), Resistance |-> R(9500), Support |-> R(8850)]

BigPrev == [Close |-> R(8950), MACD |-> R(0), MACD_Signal |-> R(1)]

BaseFrames ==
    {<<BullLatest, BullPrev>>, <<BearLatest, BearPrev>>, <<FlatLatest, FlatPrev>>,
     <<WeakLatest, WeakPrev>>, <<BigLatest, BigPrev>>}

BBCA == <<"B", "B", "C", "A">>
Tickers == {BBCA, BBCA \o DotJK, <<"B", "R", "I">>}

\* the download raises, or yields a series of some length; on a series that
\* is long enough the indicator library may still raise
FetchOutcomes ==
    {[outcome |-> "raise", len |-> 0, ind |-> "ok"]}
    \cup {[outcome |-> "ok", len |-> n, ind |-> "ok"] : n \in {0, 1, 59, 60, 125}}
    \cup {[outcome |-> "ok", len |-> n, ind |-> "raise"] : n \in {59, 125}}

Vals(S) == {R(x) : x \in S} \cup {NaN}

Same == [x \in {} |-> 0]

Upd(l, p) == [l |-> l, p |-> p, f |-> {}, t |-> {}]

LatestUpdates ==
    {[EMA_9 |-> a, EMA_20 |-> b, EMA_50 |-> c] :
        a \in Vals({98, 100, 102}), b \in Vals({96, 98, 104}), c \in Vals({94, 106})}
    \cup {[ADX |-> a, ADX_POS |-> b, ADX_NEG |-> c] :
        a \in Vals({20, 25, 30}), b \in Vals({10, 30}), c \in Vals({10, 30})}
    \cup {[SuperTrend |-> b] : b \in BOOLEAN}
    \cup {[RSI |-> a] : a \in Vals({25, 30, 35, 40, 50, 60, 70, 75})}
    \cup {[STOCH_K |-> a, STOCH_D |-> b] :
        a \in Vals({10, 20, 50, 80, 90}), b \in Vals({5, 50, 95})}
    \cup {[CCI |-> a] : a \in Vals({-150, -100, 0, 100, 150})}
    \cup {[WILLIAMS_R |-> a] : a \in Vals({-90, -80, -50, -20, -10})}
    \cup {[Volume |-> R(a), Volume_SMA |-> b] :
        a \in {200, 250, 500, 750, 752, 1000}, b \in Vals({500, 501})}
    \cup {[OBV |-> a, OBV_EMA |-> b] : a \in Vals({5, 10}), b \in Vals({5, 10})}
    \cup {[MFI |-> a] : a \in Vals({15, 20, 50, 80, 85})}
    \cup {[BB_Low |-> a, BB_High |-> b] :
        a \in Vals({90, 100, 101}), b \in Vals({99, 100, 110})}
    \cup {[BB_Width |-> a] : a \in Vals({4, 5, 20})}
    \cup {[Support |-> a, ATR |-> b] :
        a \in Vals({95, 98, 99, 100}), b \in Vals({0, 2, 3, 4})}
    \cup {[Resistance |-> a] : a \in Vals({100, 101, 102, 110})}
    \cup {[Close |-> R(a)] : a \in {99, 100}}

PrevUpdates ==
    {[Close |-> R(a)] : a \in {98, 100, 125}}

\* the MACD rule reads both rows
MACDUpdates ==
    {Upd([MACD |-> a, MACD_Signal |-> b], [MACD |-> c, MACD_Signal |-> d]) :
        a \in Vals({0, 1}), b \in Vals({0, 1}), c \in Vals({0, 1}), d \in Vals({0, 1})}

Updates ==
    {Upd(u, Same) : u \in LatestUpdates}
    \cup {Upd(Same, u) : u \in PrevUpdates}
    \cup MACDUpdates
    \cup {[l |-> Same, p |-> Same, f |-> {f}, t |-> {}] : f \in FetchOutcomes}
    \cup {[l |-> Same, p |-> Same, f |-> {}, t |-> {t}] : t \in Tickers}

Merge(row, u) == [c \in DOMAIN row |-> IF c \in DOMAIN u THEN u[c] ELSE row[c]]

ValidFrame(l, p) ==
    /\ ~IsNaN(l.Support) => FLe(l.Support, l.Close)
    /\ ~IsNaN(l.Resistance) => FGe(l.Resistance, l.Close)
    /\ (~IsNaN(l.BB_Low) /\ ~IsNaN(l.BB_High)) => FLe(l.BB_Low, l.BB_High)

(***************************************************************************)
(* One call of comprehensive_analysis on freshly fetched data, which       *)
(* differs from the data of the previous fetch in one group of columns (or *)
(* in the outcome of the fetch, or the call names another ticker).         *)
(***************************************************************************)
ComprehensiveAnalysis ==
    /\ nCalls < MaxCalls
    /\ \E u \in Updates :
          LET l == Merge(latest, u.l)
              p == Merge(prev, u.p)
              f == IF u.f = {} THEN fetched ELSE CHOOSE x \in u.f : TRUE
              t == IF u.t = {} THEN ticker ELSE CHOOSE x \in u.t : TRUE
          IN  /\ ValidFrame(l, p)
              /\ fetched' = f
              /\ latest' = l
              /\ prev' = p
              /\ ticker' = t
              /\ result' = ComprehensiveAnalysisCall(t, f, l, p)
              /\ steps' = TrySteps(f)
    /\ nCalls' = nCalls + 1
    /\ UNCHANGED <<stVars, runVars, scanVars, botVars>>

Init ==
    /\ fetched = [outcome |-> "ok", len |-> 125, ind |-> "ok"]
    /\ \E b \in BaseFrames : latest = b[1] /\ prev = b[2]
    /\ ticker = BBCA
    /\ result = [kind |-> "pending"]
    /\ steps = <<>>
    /\ nCalls = 0
    /\ bars = <<>>
    /\ i = 1
    /\ upperband = <<>>
    /\ lowerband = <<>>
    /\ supertrend = <<>>
    /\ stDone = FALSE
    /\ scanner = NewScanner
    /\ history = <<>>
    /\ ScanIdle
    /\ BotIdle

Next == ComprehensiveAnalysis

Spec == Init /\ [][Next]_vars

(***************************************************************************)
(* The scoring rules on every combination of the columns of one category.  *)
(* The fetch delivers a frame whose momentum columns, or volume columns,   *)
(* or volatility columns take every combination of values around the       *)
(* thresholds of the rules; one call analyses it.                          *)
(***************************************************************************)
MomentumFrames(base, basePrev) ==
    \E a \in Vals({25, 30, 35, 40, 50, 60, 70, 75}),
       b \in Vals({10, 20, 50, 80, 90}), c \in Vals({5, 50, 95}),
       d \in Vals({-150, -100, 0, 100, 150}),
       e \in Vals({-90, -80, -50, -20, -10}) :
        /\ latest = [base EXCEPT !.RSI = a, !.STOCH_K = b, !.STOCH_D = c,
                                 !.CCI = d, !.WILLIAMS_R = e]
        /\ prev = basePrev

VolumeFrames(base, basePrev) ==
    \E a \in {200, 250, 500, 750, 752, 1000}, b \in Vals({500, 501}),
       c \in Vals({5, 10}), d \in Vals({5, 10}),
       e \in Vals({15, 20, 50, 80, 85}) :
        /\ latest = [base EXCEPT !.Volume = R(a), !.Volume_SMA = b, !.OBV = c,
                                 !.OBV_EMA = d, !.MFI = e]
        /\ prev = basePrev

VolatilityFrames(base, basePrev) ==
    \E a \in Vals({90, 100, 101}), b \in Vals({99, 100, 110}),
       c \in Vals({4, 5, 20}), d \in Vals({95, 98, 99, 100}),
       e \in Vals({0, 2, 3, 4}), g \in Vals({100, 101, 102, 110}) :
        /\ latest = [base EXCEPT !.BB_Low = a, !.BB_High = b, !.BB_Width = c,
                                 !.Support = d, !.ATR = e, !.Resistance = g]
        /\ prev = basePrev

\* the trend columns: the two rows of MACD and its signal line included
TrendFrames(base, basePrev) ==
    \E a \in {98, 100, 102} \X {96, 104} \X {94, 106},
       b \in {20, 25, 30} \X {10, 30} \X {10, 30},
       c \in BOOLEAN,
       d \in {0, 1} \X {0, 1} \X {0, 1} \X {0, 1} :
        /\ latest = [base EXCEPT !.EMA_9 = R(a[1]), !.EMA_20 = R(a[2]),
                                 !.EMA_50 = R(a[3]), !.ADX = R(b[1]),
                                 !.ADX_POS = R(b[2]), !.ADX_NEG = R(b[3]),
                                 !.SuperTrend = c, !.MACD = R(d[1]),
                                 !.MACD_Signal = R(d[2])]
        /\ prev = [basePrev EXCEPT !.MACD = R(d[3]), !.MACD_Signal = R(d[4])]

\* every rule at its most bullish: oversold oscillators under a bullish
\* trend, heavy volume, the close under the lower band and just above support
OversoldLatest ==
    [BullLatest EXCEPT !.RSI = R(25), !.STOCH_K = R(10), !.STOCH_D = R(5),
                       !.CCI = R(-150), !.WILLIAMS_R = R(-90),
                       !.MFI = R(15), !.BB_Low = R(101), !.Support = R(99)]

TrendColumns ==
    {"EMA_9", "EMA_20", "EMA_50", "ADX", "ADX_POS", "ADX_NEG", "SuperTrend",
     "MACD", "MACD_Signal"}
MomentumColumns == {"RSI", "STOCH_K", "STOCH_D", "CCI", "WILLIAMS_R"}
VolumeColumns == {"Volume", "Volume_SMA", "OBV", "OBV_EMA", "MFI"}

\* each category's columns taken as a block from the most bullish, the
\* neutral or the most bearish row
ExtremeFrames ==
    \E t, m, v, w \in {<<OversoldLatest, BullPrev>>, <<FlatLatest, FlatPrev>>,
                       <<BearLatest, BearPrev>>} :
        /\ latest = [c \in DOMAIN FlatLatest |->
                        IF c = "Close" THEN R(100)
                        ELSE IF c \in TrendColumns THEN t[1][c]
                        ELSE IF c \in MomentumColumns THEN m[1][c]
                        ELSE IF c \in VolumeColumns THEN v[1][c]
                        ELSE w[1][c]]
        /\ prev = [t[2] EXCEPT !.Close = R(100)]

\* the fetched frame is one of these
RuleFrames(base, basePrev) ==
    /\ \/ MomentumFrames(base, basePrev)
       \/ VolumeFrames(base, basePrev)
       \/ VolatilityFrames(base, basePrev)
       \/ TrendFrames(base, basePrev)
       \/ ExtremeFrames
    /\ ValidFrame(latest, prev)

\* one call of comprehensive_analysis on the frame that was fetched
AnalyseFrame ==
    /\ nCalls = 0
    /\ result' = ComprehensiveAnalysisCall(ticker, fetched, latest, prev)
    /\ steps' = TrySteps(fetched)
    /\ nCalls' = 1
    /\ UNCHANGED <<fetched, latest, prev, ticker>>
    /\ UNCHANGED <<stVars, runVars, scanVars, botVars>>

InitRules ==
    /\ fetched = [outcome |-> "ok", len |-> 125, ind |-> "ok"]
    /\ RuleFrames(FlatLatest, FlatPrev)
    /\ ticker = BBCA
    /\ result = [kind |-> "pending"]
    /\ steps = <<>>
    /\ nCalls = 0
    /\ bars = <<>>
    /\ i = 1
    /\ upperband = <<>>
    /\ lowerband = <<>>
    /\ supertrend = <<>>
    /\ stDone = FALSE
    /\ scanner = NewScanner
    /\ history = <<>>
    /\ ScanIdle
    /\ BotIdle

NextRules == AnalyseFrame

SpecRules == InitRules /\ [][NextRules]_vars

(***************************************************************************)
(* _calculate_supertrend(df, period=10, multiplier=3).  The ATR column     *)
(* comes from the indicator library and is an input, like the bars.        *)
(***************************************************************************)
Bar(h, l, c, a) == [High |-> R(h), Low |-> R(l), Close |-> R(c), ATR |-> R(a)]

\* quiet bars at 10, gaps up and down, and wide-range bars, with the ATR
\* between 0 (the library's value in its warm-up window) and 2
BarSet ==
    {Bar(10, 10, 10, 0), Bar(10, 10, 10, 1), Bar(10, 10, 10, 2),
     Bar(16, 12, 16, 1), Bar(8, 4, 4, 1),
     Bar(16, 4, 16, 2), Bar(16, 4, 4, 2), Bar(12, 8, 12, 1)}

SeriesSet == UNION {[1..n -> BarSet] : n \in 1..MaxBars}

hl2(b) == FDiv(FAdd(b.High, b.Low), R(2))

BasicUpper(b) == FAdd(hl2(b), FMul(R(3), b.ATR))

BasicLower(b) == FSub(hl2(b), FMul(R(3), b.ATR))

\* variant: the state is not carried over (the list starts all True)
TrendAtNoCarry(c, ubPrev, lbPrev, stPrev) ==
    IF FGt(c, ubPrev) THEN TRUE
    ELSE IF FLt(c, lbPrev) THEN FALSE
    ELSE TRUE

\* the state at bar k from the close at k, the bands at k-1 and the state at k-1
TrendAt(c, ubPrev, lbPrev, stPrev) ==
    IF FGt(c, ubPrev) THEN TRUE
    ELSE IF FLt(c, lbPrev) THEN FALSE
    ELSE stPrev

\* whether the loop body took its else branch (state carried over)
Persisted(c, ubPrev, lbPrev) == ~FGt(c, ubPrev) /\ ~FLt(c, lbPrev)

\* the lower band at bar k after the loop body
LowerAt(persisted, st, lb, lbPrev) ==
    IF persisted /\ st /\ FLt(lb, lbPrev) THEN lbPrev ELSE lb

\* the upper band at bar k after the loop body
UpperAt(persisted, st, ub, ubPrev) ==
    IF persisted /\ ~st /\ FGt(ub, ubPrev) THEN ubPrev ELSE ub

\* lines 156-162: the bands of every bar, every state True, the loop at bar 2
SuperTrendStart(df) ==
    /\ bars = df
    /\ upperband = [k \in 1..Len(df) |-> BasicUpper(df[k])]
    /\ lowerband = [k \in 1..Len(df) |-> BasicLower(df[k])]
    /\ supertrend = [k \in 1..Len(df) |-> TRUE]
    /\ i = 2
    /\ stDone = FALSE

\* one iteration of the loop, for bar i
SuperTrendLoop ==
    /\ ~stDone
    /\ bars # <<>>
    /\ i <= Len(bars)
    /\ LET c == bars[i].Close
           persisted == Persisted(c, upperband[i - 1], lowerband[i - 1])
           st == TrendAt(c, upperband[i - 1], lowerband[i - 1], supertrend[i - 1])
       IN  /\ supertrend' = [supertrend EXCEPT ![i] = st]
           /\ lowerband' = [lowerband EXCEPT
                               ![i] = LowerAt(persisted, st, lowerband[i], lowerband[i - 1])]
           /\ upperband' = [upperband EXCEPT
                               ![i] = UpperAt(persisted, st, upperband[i], upperband[i - 1])]
    /\ i' = i + 1
    /\ UNCHANGED <<bars, stDone>>
    /\ UNCHANGED <<scoreVars, runVars, scanVars, botVars>>

\* lines 177-181: the three columns are written to df and df is returned
SuperTrendReturn ==
    /\ ~stDone
    /\ bars # <<>>
    /\ i > Len(bars)
    /\ stDone' = TRUE
    /\ UNCHANGED <<bars, i, upperband, lowerband, supertrend>>
    /\ UNCHANGED <<scoreVars, runVars, scanVars, botVars>>

InitST ==
    /\ fetched = [outcome |-> "ok", len |-> 125, ind |-> "ok"]
    /\ latest = BullLatest
    /\ prev = BullPrev
    /\ ticker = BBCA
    /\ result = [kind |-> "pending"]
    /\ steps = <<>>
    /\ nCalls = 0
    /\ scanner = NewScanner
    /\ history = <<>>
    /\ ScanIdle
    /\ BotIdle
    /\ \E df \in SeriesSet : SuperTrendStart(df)

NextST == SuperTrendLoop \/ SuperTrendReturn

SpecST == InitST /\ [][NextST]_vars

(***************************************************************************)
(* TradingBot.scan_all: the loop over the watchlist.  The handlers of the  *)
(* application run one at a time, so the watchlist does not change during  *)
(* a scan.  Each iteration edits the progress message (a call to the       *)
(* messaging service, which may raise) and awaits comprehensive_analysis   *)
(* on data fetched for that ticker.                                        *)
(***************************************************************************)
MaxWatch == 2

ScanTickers == {BBCA, <<"B", "B", "R", "I">>, <<"T", "L", "K", "M">> \o DotJK}

\* /add and /forceadd refuse a ticker that is already in the list
Watchlists ==
    {w \in UNION {[1..n -> ScanTickers] : n \in 0..MaxWatch} :
        \A a, b \in DOMAIN w : w[a] = w[b] => a = b}

ScanFetches ==
    {[outcome |-> "raise", len |-> 0, ind |-> "ok"],
     [outcome |-> "ok", len |-> 59, ind |-> "ok"],
     [outcome |-> "ok", len |-> 125, ind |-> "raise"],
     [outcome |-> "ok", len |-> 125, ind |-> "ok"]}

\* what happened in an iteration, for the record in 'visited'
Cause(edit, f) ==
    IF edit = "raise" THEN "progress message raised"
    ELSE IF f.outcome = "raise" THEN "fetch raised"
    ELSE IF f.len < MinBars THEN "series too short"
    ELSE IF f.ind = "raise" THEN "indicators raised"
    ELSE "analysed"

\* the value the try block of one iteration obtains, or the exception
IterationValue(edit, t, f, l, p) ==
    IF edit = "raise" THEN Raised ELSE ComprehensiveAnalysisCall(t, f, l, p)

\* if analysis: a dict with entries is true, None is not
Truthy(v) == v.kind = "analysis"

\* variant: an exception in an iteration discards what was collected
CollectOrDiscard(res, v) ==
    IF v.kind = "exception" THEN <<>>
    ELSE IF Truthy(v) THEN Append(res, v) ELSE res

\* results.append(analysis) if the body got that far; except: continue
Collect(res, v) ==
    IF v.kind = "exception" THEN res
    ELSE IF Truthy(v) THEN Append(res, v) ELSE res

\* results.sort(key=total_score, reverse=True): stable, highest score first
RECURSIVE SortByScore(_)
SortByScore(res) ==
    IF Len(res) <= 1 THEN res
    ELSE LET init == SortByScore(SubSeq(res, 1, Len(res) - 1))
             x == res[Len(res)]
             k == Cardinality({j \in 1..Len(init) :
                                 init[j].total_score >= x.total_score})
         IN  SubSeq(init, 1, k) \o <<x>> \o SubSeq(init, k + 1, Len(init))

\* the handler up to the loop: an empty watchlist is answered and the
\* handler returns
ScanStart ==
    /\ scanStatus = "idle"
    /\ IF watchlist = <<>>
       THEN scanStatus' = "empty" /\ UNCHANGED <<scanPos, results>>
       ELSE scanStatus' = "loop" /\ scanPos' = 1 /\ results' = <<>>
    /\ UNCHANGED <<watchlist, visited>>
    /\ UNCHANGED <<scoreVars, stVars, runVars, botVars>>

\* one iteration of the loop
ScanTicker ==
    /\ scanStatus = "loop"
    /\ scanPos <= Len(watchlist)
    /\ \E edit \in {"ok", "raise"}, f \in ScanFetches, b \in BaseFrames :
          LET t == watchlist[scanPos]
              v == IterationValue(edit, t, f, b[1], b[2])
          IN  /\ results' = Collect(results, v)
              /\ visited' = Append(visited,
                                   [ticker |-> t, cause |-> Cause(edit, f), ret |-> v])
    /\ scanPos' = scanPos + 1
    /\ UNCHANGED <<watchlist, scanStatus>>
    /\ UNCHANGED <<scoreVars, stVars, runVars, botVars>>

\* after the loop: nothing to report, or the results sorted for the report
ScanFinish ==
    /\ scanStatus = "loop"
    /\ scanPos > Len(watchlist)
    /\ IF results = <<>>
       THEN scanStatus' = "no data" /\ UNCHANGED results
       ELSE scanStatus' = "reported" /\ results' = SortByScore(results)
    /\ UNCHANGED <<watchlist, scanPos, visited>>
    /\ UNCHANGED <<scoreVars, stVars, runVars, botVars>>

InitScan ==
    /\ fetched = [outcome |-> "ok", len |-> 125, ind |-> "ok"]
    /\ latest = FlatLatest
    /\ prev = FlatPrev
    /\ ticker = BBCA
    /\ result = [kind |-> "pending"]
    /\ steps = <<>>
    /\ nCalls = 0
    /\ bars = <<>>
    /\ i = 1
    /\ upperband = <<>>
    /\ lowerband = <<>>
    /\ supertrend = <<>>
    /\ stDone = FALSE
    /\ scanner = NewScanner
    /\ history = <<>>
    /\ watchlist \in Watchlists
    /\ scanPos = 0
    /\ results = <<>>
    /\ visited = <<>>
    /\ scanStatus = "idle"
    /\ BotIdle

NextScan == ScanStart \/ ScanTicker \/ ScanFinish

SpecScan == InitScan /\ [][NextScan]_vars

(***************************************************************************)
(* TradingBot.help_command: the interpretation of the score that the help  *)
(* text gives the user.                                                    *)
(***************************************************************************)
HelpInterpretation(total_score) ==
    IF 15 <= total_score /\ total_score <= 20 THEN "STRONG BUY"
    ELSE IF 8 <= total_score /\ total_score <= 14 THEN "BUY"
    ELSE IF -7 <= total_score /\ total_score <= 7 THEN "HOLD"
    ELSE IF -14 <= total_score /\ total_score <= -8 THEN "SELL"
    ELSE IF -20 <= total_score /\ total_score <= -15 THEN "STRONG SELL"
    ELSE "not documented"

(***************************************************************************)
(* A sequence of comprehensive_analysis calls on one scanner object, as    *)
(* the scheduled job and the handlers make them.  Every call fetches with  *)
(* the period and interval the scanner holds; the record of each call is   *)
(* kept in 'history'.                                                      *)
(***************************************************************************)
MaxRuns == 3

RunTickers == {BBCA, <<"B", "B", "R", "I">>}

RunFetches ==
    {[outcome |-> "raise", len |-> 0, ind |-> "ok"],
     [outcome |-> "ok", len |-> 125, ind |-> "raise"],
     [outcome |-> "ok", len |-> 125, ind |-> "ok"]}

RunFrames == {<<BullLatest, BullPrev>>, <<BearLatest, BearPrev>>}

\* comprehensive_analysis assigns to no field of self
ScannerAfterCall(sc) == sc

RunCall ==
    /\ Len(history) < MaxRuns
    /\ \E t \in RunTickers, f \in RunFetches, b \in RunFrames :
          /\ ticker' = t
          /\ fetched' = f
          /\ latest' = b[1]
          /\ prev' = b[2]
          /\ result' = ComprehensiveAnalysisCall(t, f, b[1], b[2])
          /\ steps' = TrySteps(f)
          /\ history' = Append(history,
                               [ticker |-> t, fetched |-> f,
                                latest |-> b[1], prev |-> b[2],
                                period |-> scanner.lookback_period,
                                interval |-> scanner.interval,
                                ret |-> result'])
    /\ nCalls' = nCalls + 1
    /\ scanner' = ScannerAfterCall(scanner)
    /\ UNCHANGED <<stVars, scanVars, botVars>>

NextRuns == RunCall

SpecRuns == Init /\ [][NextRuns]_vars

(***************************************************************************)
(* The reversal pipeline: scan_universe, which runner.py imports from      *)
(* scanner.  The gates and the confidence formula are those of the         *)
(* pattern detector section of the specification; the thresholds are the   *)
(* ones config.py sets.  One symbol is scanned per call.                   *)
(***************************************************************************)
ADX_THRESHOLD == R(20)

VolMultUnit == R(1)

VOL_MULT == Fin(6, 5)

ATR_SL_MULT == Fin(13, 10)

FMin(a, b) == IF FLt(b, a) THEN b ELSE a

FMax(a, b) == IF FGt(b, a) THEN b ELSE a

FAbs(a) == IF IsFin(a) /\ a.n < 0 THEN FNeg(a) ELSE IF a.k = "ninf" THEN PInf ELSE a

\* int(x) of a finite float: truncation towards zero
Trunc(a) == IF a.n < 0 THEN -((-a.n) \div a.d) ELSE a.n \div a.d

Clamp(lo, hi, x) == IF x < lo THEN lo ELSE IF x > hi THEN hi ELSE x

\* the candle shapes, on today's and yesterday's open, high, low and close
Body(b) == FAbs(FSub(b.close, b.open))
LowerWick(b) == FSub(FMin(b.open, b.close), b.low)
UpperWick(b) == FSub(b.high, FMax(b.open, b.close))

IsHammer(b) ==
    /\ FGt(LowerWick(b), FMul(R(2), Body(b)))
    /\ FLt(UpperWick(b), Body(b))

IsBullishEngulfing(b) ==
    /\ FLt(b.prev_close, b.prev_open)
    /\ FGt(b.close, b.open)
    /\ FLe(b.open, b.prev_close)
    /\ FGe(b.close, b.prev_open)
    /\ FGt(FSub(b.close, b.open), FSub(b.prev_open, b.prev_close))

Pattern(b) ==
    IF IsHammer(b) THEN "hammer"
    ELSE IF IsBullishEngulfing(b) THEN "bullish_engulfing"
    ELSE "none"

\* the six gates, in the order the pipeline applies them
GateADX(b) == FLt(b.adx, ADX_THRESHOLD)
GateBelowEMAs(b) == FLt(b.close, b.ema20) /\ FLt(b.close, b.ema50)
GateFlatSlope(b) == b.flat
GatePattern(b) == Pattern(b) # "none"
GateVolume(b) == FGe(b.volume, FMul(VOL_MULT, b.vol_sma))
GateATR(b) == FGt(b.atr, R(0))

AllGates(b) ==
    /\ GateADX(b)
    /\ GateBelowEMAs(b)
    /\ GateFlatSlope(b)
    /\ GatePattern(b)
    /\ GateVolume(b)
    /\ GateATR(b)

\* vol_mult*vol_sma/volume*10 and max(0, threshold-adx), before int()
VolumeTerm(b) == FMul(FDiv(FMul(VOL_MULT, b.vol_sma), b.volume), R(10))
ADXTerm(b) ==
    IF FGt(FSub(ADX_THRESHOLD, b.adx), R(0))
    THEN FSub(ADX_THRESHOLD, b.adx) ELSE R(0)

\* int() of nan or of an infinity raises
ConfidenceRaises(b) == ~IsFin(VolumeTerm(b)) \/ ~IsFin(ADXTerm(b))

Confidence(b) ==
    Clamp(30, 95, 50 + Trunc(VolumeTerm(b)) + Trunc(ADXTerm(b)))

ReversalSignal(b) ==
    LET stop == FSub(FMin(b.low, b.prev_low), FMul(b.atr, ATR_SL_MULT))
        risk == FSub(b.close, stop)
    IN  [symbol |-> b.symbol,
         entry |-> b.close,
         stop_loss |-> stop,
         target1 |-> FAdd(b.close, FMul(Fin(3, 2), risk)),
         target2 |-> FAdd(b.close, FMul(R(3), risk)),
         pattern |-> Pattern(b),
         confidence |-> Confidence(b)]

\* zero or one signal for the symbol
ScanSymbol(b) ==
    IF AllGates(b) /\ ~ConfidenceRaises(b)
    THEN <<ReversalSignal(b)>>
    ELSE <<>>

\* today's and yesterday's candle; today's close is 100 in each
Candles ==
    {[open |-> R(99), high |-> R(100), low |-> R(95), close |-> R(100),
      prev_open |-> R(98), prev_close |-> R(99), prev_low |-> R(96)],
     [open |-> R(98), high |-> R(100), low |-> R(94), close |-> R(100),
      prev_open |-> R(98), prev_close |-> R(99), prev_low |-> R(93)],
     [open |-> R(96), high |-> R(101), low |-> R(95), close |-> R(100),
      prev_open |-> R(99), prev_close |-> R(97), prev_low |-> R(96)],
     [open |-> R(100), high |-> R(102), low |-> R(98), close |-> R(100),
      prev_open |-> R(99), prev_close |-> R(100), prev_low |-> R(98)],
     [open |-> R(104), high |-> R(105), low |-> R(99), close |-> R(100),
      prev_open |-> R(103), prev_close |-> R(104), prev_low |-> R(102)]}

ADXValues == {NaN, R(0), R(15), Fin(39, 2), R(20), R(25)}

\* <<volume, its rolling average>>
VolumePairs ==
    {<<R(1300), R(1000)>>, <<R(1200), R(1000)>>, <<R(1199), R(1000)>>,
     <<R(5000), R(1000)>>, <<R(1000), R(1000)>>, <<R(0), R(0)>>,
     <<R(7), R(0)>>}

ATRValues == {NaN, R(0), R(2)}

ReversalInputs(b) ==
    \E c \in Candles, a \in ADXValues, v \in VolumePairs, t \in ATRValues,
       e20 \in {R(99), R(100), R(105)}, e50 \in {R(98), R(110)},
       f \in BOOLEAN :
        b = [symbol |-> BBCA, open |-> c.open, high |-> c.high,
             low |-> c.low, close |-> c.close, prev_open |-> c.prev_open,
             prev_close |-> c.prev_close, prev_low |-> c.prev_low,
             adx |-> a, ema20 |-> e20, ema50 |-> e50, flat |-> f,
             volume |-> v[1], vol_sma |-> v[2], atr |-> t]

\* one call of the entry point on the symbol's frame
ScanUniverse ==
    /\ revOut = <<>>
    /\ revOut' = <<ScanSymbol(revIn)>>
    /\ UNCHANGED <<revIn, dxVars, watchVars, jobVars, splitVars, engineVars>>

\* nothing of the scoring engine has run
EngineIdle ==
    /\ fetched = [outcome |-> "ok", len |-> 125, ind |-> "ok"]
    /\ latest = FlatLatest
    /\ prev = FlatPrev
    /\ ticker = BBCA
    /\ result = [kind |-> "pending"]
    /\ steps = <<>>
    /\ nCalls = 0
    /\ bars = <<>>
    /\ i = 1
    /\ upperband = <<>>
    /\ lowerband = <<>>
    /\ supertrend = <<>>
    /\ stDone = FALSE
    /\ scanner = NewScanner
    /\ history = <<>>
    /\ ScanIdle

InitReversal ==
    /\ EngineIdle
    /\ ReversalInputs(revIn)
    /\ revOut = <<>>
    /\ DXIdle /\ WatchIdle /\ JobIdle /\ SplitIdle

NextReversal == ScanUniverse

SpecReversal == InitReversal /\ [][NextReversal]_vars

(***************************************************************************)
(* utils/indicators.py, dx(df, n): the ADX series of a frame.  A series is *)
(* a sequence of floats, a missing value being nan; df is one              *)
(* [high, low, close] per bar.                                             *)
(***************************************************************************)
MaxWindow == 2

\* Series.diff(): nan at the first bar
Diff(s, k) == IF k = 1 THEN NaN ELSE FSub(s[k], s[k - 1])

Column(df, c) == [k \in 1..Len(df) |-> df[k][c]]

RECURSIVE SumOver(_, _, _)
SumOver(s, a, b) == IF a > b THEN R(0) ELSE FAdd(s[a], SumOver(s, a + 1, b))

\* Series.rolling(n).sum() and .mean(): nan until n values are available
RollingSum(s, n) ==
    [k \in 1..Len(s) |-> IF k < n THEN NaN ELSE SumOver(s, k - n + 1, k)]

RollingMean(s, n) ==
    [k \in 1..Len(s) |-> FDiv(RollingSum(s, n)[k], R(n))]

\* plus_dm after line 28: kept where it exceeds minus_dm and zero, else 0.0
PlusDM(df) ==
    [k \in 1..Len(df) |->
        LET up == Diff(Column(df, "high"), k)
            down == FNeg(Diff(Column(df, "low"), k))
        IN  IF FGt(up, down) /\ FGt(up, R(0)) THEN up ELSE R(0)]

\* minus_dm after line 29: compared with the plus_dm line 28 rewrote
MinusDM(df) ==
    [k \in 1..Len(df) |->
        LET down == FNeg(Diff(Column(df, "low"), k))
        IN  IF FGt(down, PlusDM(df)[k]) /\ FGt(down, R(0))
            THEN down ELSE R(0)]

\* row-wise max of tr1, tr2, tr3, skipping the nan of the first bar
TrueRange(df) ==
    [k \in 1..Len(df) |->
        LET tr1 == FSub(df[k].high, df[k].low)
        IN  IF k = 1 THEN tr1
            ELSE FMax(tr1, FMax(FAbs(FSub(df[k].high, df[k - 1].close)),
                                FAbs(FSub(df[k].low, df[k - 1].close))))]

DirectionalIndex(dm, df, n) ==
    [k \in 1..Len(df) |->
        FMul(R(100), FDiv(RollingSum(dm, n)[k],
                          RollingMean(TrueRange(df), n)[k]))]

\* .replace([inf, -inf], 0) only
DXCleanNoFill(x) == IF x.k \in {"pinf", "ninf"} THEN R(0) ELSE x

\* .replace([inf, -inf], 0).fillna(0)
DXClean(x) == IF IsFin(x) THEN x ELSE R(0)

DXSeries(plus_di, minus_di) ==
    [k \in 1..Len(plus_di) |->
        DXClean(FDiv(FMul(R(100), FAbs(FSub(plus_di[k], minus_di[k]))),
                     FAdd(plus_di[k], minus_di[k])))]

\* the local series of one call; 'adx' is the return value
dx(df, n) ==
    LET plus_di == DirectionalIndex(PlusDM(df), df, n)
        minus_di == DirectionalIndex(MinusDM(df), df, n)
        d == DXSeries(plus_di, minus_di)
    IN  [plus_di |-> plus_di, minus_di |-> minus_di, dx |-> d,
         adx |-> RollingMean(d, n)]

DXBars ==
    {[high |-> R(10), low |-> R(10), close |-> R(10)],
     [high |-> R(12), low |-> R(8), close |-> R(10)],
     [high |-> R(11), low |-> R(9), close |-> R(10)],
     [high |-> R(14), low |-> R(10), close |-> R(12)],
     [high |-> R(9), low |-> R(5), close |-> R(6)]}

DXFrames == UNION {[1..len -> DXBars] : len \in 1..MaxBars}

CallDX ==
    /\ dxOut = <<>>
    /\ dxOut' = <<dx(ohlc.df, ohlc.n)>>
    /\ UNCHANGED <<ohlc, revVars, watchVars, jobVars, splitVars, engineVars>>

InitDX ==
    /\ EngineIdle
    /\ \E n \in 1..MaxWindow, df \in DXFrames : ohlc = [df |-> df, n |-> n]
    /\ dxOut = <<>>
    /\ RevIdle /\ WatchIdle /\ JobIdle /\ SplitIdle

NextDX == CallDX

SpecDX == InitDX /\ [][NextDX]_vars

(***************************************************************************)
(* bot.py, the watchlist commands.  user_watchlists is a dict: a function  *)
(* whose domain is the set of user ids that have an entry.  A command      *)
(* argument is a string as typed, a sequence of characters.                *)
(***************************************************************************)
MaxList == 3
MaxPending == 2

Users == {"u1", "u2"}

\* context.args: no argument, or the first argument as typed
CommandArgs ==
    {<<>>, <<<<"b", "b", "c", "a">>>>, <<<<"B", "B", "C", "A">>>>,
     <<<<"T", "L", "K", "M">>>>}

\* str.upper() on the characters the arguments use
UpperChar(c) ==
    CASE c = "a" -> "A"
      [] c = "b" -> "B"
      [] c = "c" -> "C"
      [] OTHER -> c

Upper(s) == [k \in 1..Len(s) |-> UpperChar(s[k])]

DictSet(d, u, v) ==
    [x \in DOMAIN d \cup {u} |-> IF x = u THEN v ELSE d[x]]

\* 'ticker in list'
Contains(list, t) == \E k \in 1..Len(list) : list[k] = t

\* list.remove(t): the first occurrence goes
RECURSIVE RemoveFirst(_, _)
RemoveFirst(list, t) ==
    IF list = <<>> THEN <<>>
    ELSE IF Head(list) = t THEN Tail(list)
    ELSE <<Head(list)>> \o RemoveFirst(Tail(list), t)

\* 'if user_id not in user_watchlists: user_watchlists[user_id] = []'
EnsureUser(d, u) == IF u \in DOMAIN d THEN d ELSE DictSet(d, u, <<>>)

\* what yfinance delivers for the ticker's info
InfoOutcomes == {"regularMarketPrice", "currentPrice", "empty", "raises"}

\* scanner.validate_ticker: the bare except turns every failure into False
validate_ticker(t, info) ==
    IF info = "raises" THEN FALSE
    ELSE info \in {"regularMarketPrice", "currentPrice"}

\* lines 263-264 without the test of is_valid
AppendIfValidAlways(d, u, t, is_valid) ==
    DictSet(d, u, Append(d[u], t))

\* lines 263-264: the append under 'if is_valid'
AppendIfValid(d, u, t, is_valid) ==
    IF is_valid THEN DictSet(d, u, Append(d[u], t)) ELSE d

\* lines 321-325 without the membership test
ForceAppendUnchecked(d, u, t) == DictSet(d, u, Append(d[u], t))

\* lines 321-325: membership test, then append
ForceAppend(d, u, t) ==
    IF Contains(d[u], t) THEN d ELSE DictSet(d, u, Append(d[u], t))

Handled(u, cmd, args, is_valid) ==
    <<[user |-> u, cmd |-> cmd, args |-> args, is_valid |-> is_valid,
       before |-> user_watchlists]>>

Start ==
    \E u \in Users :
        /\ user_watchlists' = EnsureUser(user_watchlists, u)
        /\ lastCmd' = Handled(u, "start", <<>>, "not called")

\* add_to_watchlist up to its first await after the membership test; the
\* outcome is "done" when the handler returned before it
AddUntilAwait(d, u, args) ==
    IF args = <<>> THEN [dict |-> d, at |-> "done"]
    ELSE LET d1 == EnsureUser(d, u)
         IN  IF Contains(d1[u], Upper(args[1]))
             THEN [dict |-> d1, at |-> "done"]
             ELSE [dict |-> d1, at |-> "await"]

\* add_to_watchlist from the await on: the "Validating" message is sent,
\* the ticker validated and appended if valid
AddFromAwait(d, u, t, replied, info) ==
    IF ~replied THEN d
    ELSE AppendIfValid(d, u, t, validate_ticker(t, info))

\* /add handled from start to end without another handler in between
Add ==
    \E u \in Users, args \in CommandArgs, replied \in BOOLEAN,
       info \in InfoOutcomes :
        LET a == AddUntilAwait(user_watchlists, u, args)
        IN  /\ suspended = <<>>
            /\ a.at = "await" => Len(a.dict[u]) < MaxList
            /\ user_watchlists' =
                   IF a.at = "done" THEN a.dict
                   ELSE AddFromAwait(a.dict, u, Upper(args[1]), replied, info)
            /\ lastCmd' =
                   Handled(u, "add", args,
                           IF a.at = "done" \/ ~replied THEN "not called"
                           ELSE IF validate_ticker(Upper(args[1]), info)
                                THEN "true" ELSE "false")

ForceAdd ==
    \E u \in Users, args \in CommandArgs :
        /\ args # <<>> => Len(EnsureUser(user_watchlists, u)[u]) < MaxList
        /\ user_watchlists' =
               IF args = <<>> THEN user_watchlists
               ELSE ForceAppend(EnsureUser(user_watchlists, u), u,
                                Upper(args[1]))
        /\ lastCmd' = Handled(u, "forceadd", args, "not called")

Remove ==
    \E u \in Users, args \in CommandArgs :
        /\ user_watchlists' =
               IF args = <<>> THEN user_watchlists
               ELSE IF u \notin DOMAIN user_watchlists
                       \/ ~Contains(user_watchlists[u], Upper(args[1]))
                    THEN user_watchlists
                    ELSE DictSet(user_watchlists, u,
                                 RemoveFirst(user_watchlists[u],
                                             Upper(args[1])))
        /\ lastCmd' = Handled(u, "remove", args, "not called")

Clear ==
    \E u \in Users :
        /\ user_watchlists' =
               IF u \in DOMAIN user_watchlists
               THEN DictSet(user_watchlists, u, <<>>)
               ELSE user_watchlists
        /\ lastCmd' = Handled(u, "clear", <<>>, "not called")

WatchFrame == UNCHANGED <<revVars, dxVars, jobVars, splitVars, engineVars>>

\* the application handles one update at a time
NextWatch ==
    \/ Start /\ UNCHANGED suspended /\ WatchFrame
    \/ Add /\ UNCHANGED suspended /\ WatchFrame
    \/ ForceAdd /\ UNCHANGED suspended /\ WatchFrame
    \/ Remove /\ UNCHANGED suspended /\ WatchFrame
    \/ Clear /\ UNCHANGED suspended /\ WatchFrame

InitWatch ==
    /\ EngineIdle
    /\ WatchIdle
    /\ RevIdle /\ DXIdle /\ JobIdle /\ SplitIdle

SpecWatch == InitWatch /\ [][NextWatch]_vars

(***************************************************************************)
(* The watchlist commands when handlers may overlap: an /add handler that  *)
(* reached its await (lines 257 and 261) is suspended, other handlers run, *)
(* and it resumes later.  The other handlers change the dict before their  *)
(* first await, so each of them is one step.                               *)
(***************************************************************************)
RemoveAt(s, k) == SubSeq(s, 1, k - 1) \o SubSeq(s, k + 1, Len(s))

\* /add from its start to its return or to the await
AddBegin ==
    \E u \in Users, args \in CommandArgs :
        LET a == AddUntilAwait(user_watchlists, u, args)
        IN  /\ a.at = "await" => Len(suspended) < MaxPending
            /\ user_watchlists' = a.dict
            /\ suspended' =
                   IF a.at = "await"
                   THEN Append(suspended,
                               [user |-> u, args |-> args,
                                ticker |-> Upper(args[1])])
                   ELSE suspended
            /\ lastCmd' = Handled(u, "add", args, "not called")

\* a suspended /add runs from the await to its end
AddResume ==
    \E k \in 1..Len(suspended), replied \in BOOLEAN, info \in InfoOutcomes :
        LET h == suspended[k]
        IN  /\ Len(user_watchlists[h.user]) < MaxList
            /\ user_watchlists' =
                   AddFromAwait(user_watchlists, h.user, h.ticker, replied,
                                info)
            /\ suspended' = RemoveAt(suspended, k)
            /\ lastCmd' =
                   Handled(h.user, "add", h.args,
                           IF ~replied THEN "not called"
                           ELSE IF validate_ticker(h.ticker, info)
                                THEN "true" ELSE "false")

NextOverlap ==
    \/ AddBegin /\ WatchFrame
    \/ AddResume /\ WatchFrame
    \/ Start /\ UNCHANGED suspended /\ WatchFrame
    \/ ForceAdd /\ UNCHANGED suspended /\ WatchFrame
    \/ Remove /\ UNCHANGED suspended /\ WatchFrame
    \/ Clear /\ UNCHANGED suspended /\ WatchFrame

SpecOverlap == InitWatch /\ [][NextOverlap]_vars

(***************************************************************************)
(* runner.py, job_scan_and_notify, with telegram_notify.send_signal.  The  *)
(* dedupe file is the set of its keys; the scheduler starts a run when the *)
(* previous one has ended.                                                 *)
(***************************************************************************)
MaxJobs == 2
MaxSignals == 2

\* the signals a scan can return: symbol and entry as the f-string prints it
SignalSet ==
    {[symbol |-> "BBCA.JK", entry |-> "100.0"],
     [symbol |-> "BBCA.JK", entry |-> "105.0"],
     [symbol |-> "TLKM.JK", entry |-> "100.0"]}

SignalLists == UNION {[1..n -> SignalSet] : n \in 0..MaxSignals}

\* f"{s['symbol']}_{s['entry']}"
Key(s) == s.symbol \o "_" \o s.entry

\* the names telegram_notify.py imports from config (line 4)
NotifyImports == {"TELEGRAM_BOT_TOKEN", "TELEGRAM_CHAT_ID"}

\* the module-level names the f-string of format_signal_message reads
FormatNames == {"ADX_THRESHOLD", "ATR_SL_MULT"}

\* format_signal_message: a name that is not defined in the module raises
format_signal_message(sig) ==
    IF FormatNames \subseteq NotifyImports THEN "text" ELSE "raises"

\* what requests.post and r.json() can do
HttpOutcomes == {"ok", "not ok", "not json", "post raises"}

\* send_signal: the response dict's "ok", or "raises"
send_signal(sig, http) ==
    IF format_signal_message(sig) = "raises" THEN "raises"
    ELSE IF http = "post raises" THEN "raises"
    ELSE IF http = "ok" THEN "ok"
    ELSE "not ok"

\* load_sent(): {} without a file, else the file's keys
load_sent == store

\* the scheduler fires: lines 23-28
JobStart ==
    /\ jobStatus \in {"idle", "returned", "raised"}
    /\ nJobs < MaxJobs
    /\ nJobs' = nJobs + 1
    /\ \E sigs \in SignalLists :
          /\ signals' = sigs
          /\ IF sigs = <<>>
             THEN jobStatus' = "returned" /\ UNCHANGED <<sent, sigPos>>
             ELSE jobStatus' = "loop" /\ sent' = load_sent /\ sigPos' = 1
    /\ UNCHANGED <<store, sendLog>>
    /\ UNCHANGED <<revVars, dxVars, watchVars, splitVars, engineVars>>

\* one iteration of the loop: lines 29-37
JobSignal ==
    /\ jobStatus = "loop"
    /\ \E http \in HttpOutcomes :
          LET s == signals[sigPos]
              resp == send_signal(s, http)
              event(what, after) ==
                  [job |-> nJobs, key |-> Key(s), what |-> what,
                   stored |-> Key(s) \in store, recorded |-> Key(s) \in after]
              next == IF sigPos = Len(signals) THEN "returned" ELSE "loop"
          IN  IF Key(s) \in sent
              THEN /\ sendLog' = Append(sendLog, event("skipped", store))
                   /\ sigPos' = sigPos + 1
                   /\ jobStatus' = next
                   /\ UNCHANGED <<sent, store>>
              ELSE IF resp = "raises"
              THEN /\ sendLog' = Append(sendLog, event("raises", store))
                   /\ jobStatus' = "raised"
                   /\ UNCHANGED <<sent, store, sigPos>>
              ELSE /\ sent' = sent \cup {Key(s)}
                   /\ store' = sent'
                   /\ sendLog' = Append(sendLog, event(resp, store'))
                   /\ sigPos' = sigPos + 1
                   /\ jobStatus' = next
    /\ UNCHANGED <<signals, nJobs>>
    /\ UNCHANGED <<revVars, dxVars, watchVars, splitVars, engineVars>>

\* the dedupe file may exist from an earlier process
InitJobs ==
    /\ EngineIdle
    /\ store \in SUBSET {Key(s) : s \in SignalSet}
    /\ sent = {}
    /\ signals = <<>>
    /\ sigPos = 0
    /\ sendLog = <<>>
    /\ jobStatus = "idle"
    /\ nJobs = 0
    /\ RevIdle /\ DXIdle /\ WatchIdle /\ SplitIdle

NextJobs == JobStart \/ JobSignal

SpecJobs == InitJobs /\ [][NextJobs]_vars

(***************************************************************************)
(* bot.py, _split_message(text, max_length).  A text is a sequence of      *)
(* characters; a state is the function at the head of its while loop.      *)
(***************************************************************************)
MaxText == 5
MaxChunk == 3

NL == "\n"

TextChars == {"a", " ", NL}

\* the characters str.lstrip() removes, among those the texts use
Whitespace == {" ", NL}

\* s[:n]
Prefix(s, n) == SubSeq(s, 1, IF n < Len(s) THEN n ELSE Len(s))

\* s[n:]
Suffix(s, n) == SubSeq(s, n + 1, Len(s))

\* s.rfind('\n\n'): 0-based index of the last blank line, -1 without one
RFindBlankLine(s) ==
    LET hits == {j \in 1..(Len(s) - 1) : s[j] = NL /\ s[j + 1] = NL}
    IN  IF hits = {} THEN -1
        ELSE (CHOOSE j \in hits : \A h \in hits : h <= j) - 1

RECURSIVE LStrip(_)
LStrip(s) ==
    IF s # <<>> /\ Head(s) \in Whitespace THEN LStrip(Tail(s)) ELSE s

\* lines 701-703
SplitPos(s, n) ==
    IF RFindBlankLine(Prefix(s, n)) = -1 THEN n
    ELSE RFindBlankLine(Prefix(s, n))

\* one evaluation of the loop condition and, if it holds, of the body
SplitStep ==
    /\ splitStatus = "loop"
    /\ IF text = <<>>
       THEN splitStatus' = "returned" /\ UNCHANGED <<text, chunks>>
       ELSE IF Len(text) <= max_length
       THEN /\ chunks' = Append(chunks, text)
            /\ splitStatus' = "returned"
            /\ UNCHANGED text
       ELSE /\ chunks' = Append(chunks, Prefix(text, SplitPos(text, max_length)))
            /\ text' = LStrip(Suffix(text, SplitPos(text, max_length)))
            /\ UNCHANGED splitStatus
    /\ UNCHANGED <<max_length, text0>>
    /\ UNCHANGED <<revVars, dxVars, watchVars, jobVars, engineVars>>

\* the call: any text of up to MaxText characters, any max_length from 1
InitSplit ==
    /\ EngineIdle
    /\ text0 \in UNION {[1..n -> TextChars] : n \in 0..MaxText}
    /\ text = text0
    /\ max_length \in 1..MaxChunk
    /\ chunks = <<>>
    /\ splitStatus = "loop"
    /\ RevIdle /\ DXIdle /\ WatchIdle /\ JobIdle

NextSplit == SplitStep

SpecSplit == InitSplit /\ [][NextSplit]_vars

(***************************************************************************)
(*                              Properties                                 *)
(***************************************************************************)
Analysed == result.kind = "analysis"

BuySignals == {"BUY", "STRONG BUY"}

Defined(S) == \A x \in S : ~IsNaN(x)

\* C1: the composite score of every returned analysis is the sum of its
\* trend, momentum, volume and volatility scores.
C1_CompositeIsSum ==
    Analysed =>
        result.total_score = result.trend_score + result.momentum_score
                             + result.volume_score + result.volatility_score

\* an analysis in which all four categories contribute
C1_Witness ==
    /\ Analysed
    /\ result.trend_score # 0
    /\ result.momentum_score # 0
    /\ result.volume_score # 0
    /\ result.volatility_score # 0

C3_ShortSeriesAbsent ==
    (result.kind # "pending" /\ (fetched.outcome = "raise" \/ fetched.len < 60)) =>
        (result = None /\ steps = <<"fetch">>)

\* a call on a series of 59 bars
C3_Witness ==
    /\ nCalls > 0
    /\ fetched.outcome = "ok"
    /\ fetched.len = 59
    /\ result = None

\* the fold of section 4.2 of the specification over the first k bars of df:
\* state and the two bands at bar k
RECURSIVE FoldST(_, _)
FoldST(df, k) ==
    IF k = 1
    THEN [st |-> TRUE, ub |-> BasicUpper(df[1]), lb |-> BasicLower(df[1])]
    ELSE LET q == FoldST(df, k - 1)
             c == df[k].Close
             ub == BasicUpper(df[k])
             lb == BasicLower(df[k])
         IN  IF FGt(c, q.ub) THEN [st |-> TRUE, ub |-> ub, lb |-> lb]
             ELSE IF FLt(c, q.lb) THEN [st |-> FALSE, ub |-> ub, lb |-> lb]
             ELSE [st |-> q.st,
                   ub |-> IF ~q.st /\ FGt(ub, q.ub) THEN q.ub ELSE ub,
                   lb |-> IF q.st /\ FLt(lb, q.lb) THEN q.lb ELSE lb]

\* C4: the SuperTrend states are the fold over the bars: Bullish at the first
\* bar; at bar k Bullish if the close is above the (ratcheted) upper band of
\* bar k-1, else Bearish if it is below the lower band of bar k-1, else the
\* state of bar k-1.
C4_SuperTrendFold ==
    \A k \in 1..Len(bars) :
        k < i =>
            /\ supertrend[k] = FoldST(bars, k).st
            /\ k = 1 => supertrend[k]
            /\ k > 1 =>
                 supertrend[k] =
                    (IF FGt(bars[k].Close, upperband[k - 1]) THEN TRUE
                     ELSE IF FLt(bars[k].Close, lowerband[k - 1]) THEN FALSE
                     ELSE supertrend[k - 1])

\* a finished run in which a Bearish state persisted with a ratcheted upper
\* band, and the next close broke that band but not the unratcheted one
C4_Witness ==
    /\ stDone
    /\ \E k \in 2..(Len(bars) - 1) :
          /\ ~supertrend[k - 1]
          /\ ~supertrend[k]
          /\ upperband[k] # BasicUpper(bars[k])
          /\ FGt(bars[k + 1].Close, upperband[k])
          /\ ~FGt(bars[k + 1].Close, BasicUpper(bars[k]))
          /\ supertrend[k + 1]

\* C5: in the output, the lower band does not decrease between two
\* consecutive Bullish bars and the upper band does not increase between two
\* consecutive Bearish bars.
C5_BandRatchet ==
    stDone =>
        \A k \in 2..Len(bars) :
            /\ (supertrend[k - 1] /\ supertrend[k]) =>
                   FGe(lowerband[k], lowerband[k - 1])
            /\ (~supertrend[k - 1] /\ ~supertrend[k]) =>
                   FLe(upperband[k], upperband[k - 1])

\* C6: entry, target, stop-loss and risk:reward are computed exactly for the
\* signals BUY and STRONG BUY; for HOLD, SELL and STRONG SELL all four are
\* "N/A".
C6_LevelsOnlyForBuy ==
    Analysed =>
        LET levels == {result.entry_point, result.target_price,
                       result.stop_loss, result.risk_reward}
        IN  /\ result.trading_signal \in BuySignals => "N/A" \notin levels
            /\ result.trading_signal \notin BuySignals => levels = {"N/A"}

\* a STRONG BUY with its levels
C6_Witness ==
    /\ Analysed
    /\ result.trading_signal = "STRONG BUY"
    /\ result.entry_point = "Rp 95 - 100"

\* two decimals of h hundredths
TwoDecimals(h) ==
    ToString(h \div 100) \o "."
    \o (IF h % 100 < 10 THEN "0" ELSE "") \o ToString(h % 100)

\* C7: for a BUY signal on defined values, target = close + 2*ATR, stop-loss
\* = support - ATR, and the ratio printed is (target - close)/(close - stop)
\* to the nearest hundredth; close 100, support 95, ATR 2 give 104, 93 and
\* "1:0.57".
C7_BuyLevels ==
    (/\ Analysed
     /\ result.trading_signal \in BuySignals
     /\ Defined({latest.Support, latest.ATR})) =>
        LET c == latest.Close.n
            s == latest.Support.n
            a == latest.ATR.n
            den == c - (s - a)
        IN  /\ result.target_price = "Rp " \o Grouped(c + 2 * a)
            /\ result.stop_loss = "Rp " \o Grouped(s - a)
            /\ den > 0 =>
                 \E h \in {(200 * a) \div den, (200 * a) \div den + 1} :
                    /\ result.risk_reward = "1:" \o TwoDecimals(h)
                    /\ 2 * Abs(100 * (c + 2 * a - c) - h * den) <= den
            /\ (c = 100 /\ s = 95 /\ a = 2) =>
                 /\ result.target_price = "Rp 104"
                 /\ result.stop_loss = "Rp 93"
                 /\ result.risk_reward = "1:0.57"

\* the example of the specification
C7_Witness ==
    /\ Analysed
    /\ result.trading_signal = "BUY"
    /\ latest.Close = R(100)
    /\ latest.Support = R(95)
    /\ latest.ATR = R(2)
    /\ result.risk_reward = "1:0.57"

\* the contributions of the rules whose inputs are all defined
TrendOfDefined(l, p) ==
    (IF Defined({l.Close, l.EMA_9, l.EMA_20, l.EMA_50}) THEN EMAAlignment(l) ELSE 0)
    + (IF Defined({l.ADX, l.ADX_POS, l.ADX_NEG}) THEN ADXStrength(l) ELSE 0)
    + SuperTrendRule(l)
    + (IF Defined({l.MACD, l.MACD_Signal, p.MACD, p.MACD_Signal})
       THEN MACDRule(l, p) ELSE 0)

MomentumOfDefined(l) ==
    (IF Defined({l.RSI}) THEN RSIRule(l) ELSE 0)
    + (IF Defined({l.STOCH_K, l.STOCH_D}) THEN StochasticRule(l) ELSE 0)
    + (IF Defined({l.CCI}) THEN CCIRule(l) ELSE 0)
    + (IF Defined({l.WILLIAMS_R}) THEN WilliamsRule(l) ELSE 0)

VolumeOfDefined(l) ==
    (IF Defined({l.Volume, l.Volume_SMA}) THEN VolumeVsAverage(l) ELSE 0)
    + (IF Defined({l.OBV, l.OBV_EMA}) THEN OBVTrend(l) ELSE 0)
    + (IF Defined({l.MFI}) THEN MFIRule(l) ELSE 0)

VolatilityOfDefined(l) ==
    (IF Defined({l.Close, l.BB_Low, l.BB_High}) THEN BollingerRule(l) ELSE 0)
    + (IF Defined({l.Close, l.Support}) THEN NearSupport(l) ELSE 0)
    + (IF Defined({l.Close, l.Resistance}) THEN NearResistance(l) ELSE 0)

\* C8: a rule that reads an undefined (not-a-number) indicator contributes 0
\* to its category score, for every rule of the four categories.
C8_UndefinedContributesZero ==
    Analysed =>
        /\ result.trend_score = TrendOfDefined(latest, prev)
        /\ result.momentum_score = MomentumOfDefined(latest)
        /\ result.volume_score = VolumeOfDefined(latest)
        /\ result.volatility_score = VolatilityOfDefined(latest)

\* C9: when close - stop_loss is zero on a BUY signal, the ratio reported is
\* a defined fallback, not infinite and not not-a-number.
C9_ZeroDenominatorFallback ==
    (/\ Analysed
     /\ result.trading_signal \in BuySignals
     /\ Defined({latest.Support, latest.ATR})
     /\ FSub(latest.Close, FSub(latest.Support, latest.ATR)) = R(0)) =>
        result.risk_reward \notin {"1:nan", "1:inf", "1:-inf"}

\* C10: the trend score is the sum of the EMA-stack rule (+3/-3/0), the
\* ADX/DI rule (+2/-2/0), the SuperTrend rule (+1/-1) and the MACD-crossover
\* rule (+2/-2/0); it is 8 when all four are bullish and lies in -8..8.
C10_TrendScore ==
    Analysed =>
        LET l == latest
            p == prev
            stackUp == FGt(l.Close, l.EMA_9) /\ FGt(l.EMA_9, l.EMA_20)
                       /\ FGt(l.EMA_20, l.EMA_50)
            stackDown == FLt(l.Close, l.EMA_9) /\ FLt(l.EMA_9, l.EMA_20)
                         /\ FLt(l.EMA_20, l.EMA_50)
            crossUp == FLt(p.MACD, p.MACD_Signal) /\ FGt(l.MACD, l.MACD_Signal)
            crossDown == FGt(p.MACD, p.MACD_Signal) /\ FLt(l.MACD, l.MACD_Signal)
            diUp == FGt(l.ADX, R(25)) /\ FGt(l.ADX_POS, l.ADX_NEG)
            ema == IF stackUp THEN 3 ELSE IF stackDown THEN -3 ELSE 0
            st == IF l.SuperTrend THEN 1 ELSE -1
            macd == IF crossUp THEN 2 ELSE IF crossDown THEN -2 ELSE 0
            adx == result.trend_score - ema - st - macd
        IN  /\ adx \in {-2, 0, 2}
            /\ (adx = 2) = diUp
            /\ adx # 0 => FGt(l.ADX, R(25))
            /\ (stackUp /\ diUp /\ l.SuperTrend /\ crossUp) => result.trend_score = 8
            /\ result.trend_score \in -8..8

\* all four trend rules bullish
C10_Witness ==
    /\ Analysed
    /\ result.trend_score = 8
    /\ FGt(latest.EMA_20, latest.EMA_50)
    /\ FGt(latest.ADX_POS, latest.ADX_NEG)
    /\ latest.SuperTrend
    /\ FLt(prev.MACD, prev.MACD_Signal)

\* what the ADX rule added to the trend score of the returned analysis: the
\* trend score less the contributions of the three other trend rules
ADXContribution ==
    LET l == latest
        p == prev
        ema == IF FGt(l.Close, l.EMA_9) /\ FGt(l.EMA_9, l.EMA_20)
                  /\ FGt(l.EMA_20, l.EMA_50) THEN 3
               ELSE IF FLt(l.Close, l.EMA_9) /\ FLt(l.EMA_9, l.EMA_20)
                       /\ FLt(l.EMA_20, l.EMA_50) THEN -3
               ELSE 0
        st == IF l.SuperTrend THEN 1 ELSE -1
        macd == IF FLt(p.MACD, p.MACD_Signal) /\ FGt(l.MACD, l.MACD_Signal) THEN 2
                ELSE IF FGt(p.MACD, p.MACD_Signal) /\ FLt(l.MACD, l.MACD_Signal)
                THEN -2
                ELSE 0
    IN  result.trend_score - ema - st - macd

\* C11: the ADX rule contributes +2 exactly when ADX > 25 and +DI > -DI, -2
\* exactly when ADX > 25 and -DI > +DI, and 0 in every other case, ADX > 25
\* with +DI equal to -DI included.  Stated for defined values of the three
\* columns: the undefined ones are the subject of C8.
C11_ADXRuleExact ==
    (Analysed /\ Defined({latest.ADX, latest.ADX_POS, latest.ADX_NEG})) =>
        LET strong == FGt(latest.ADX, R(25))
        IN  /\ (ADXContribution = 2) = (strong /\ FGt(latest.ADX_POS, latest.ADX_NEG))
            /\ (ADXContribution = -2) = (strong /\ FGt(latest.ADX_NEG, latest.ADX_POS))
            /\ ADXContribution \in {-2, 0, 2}

\* C12: the momentum score is the sum of the RSI rule (+2 below 30, -2 above
\* 70), the Stochastic rule (+2 if %K < 20 and %K > %D, -2 if %K > 80 and
\* %K < %D), the CCI rule (+1 below -100, -1 above 100) and the Williams %R
\* rule (+1 below -80, -1 above -20), each 0 otherwise, for every combination
\* of the five columns.
C12_MomentumScore ==
    Analysed =>
        LET l == latest
            rsi == IF FLt(l.RSI, R(30)) THEN 2
                   ELSE IF FGt(l.RSI, R(70)) THEN -2 ELSE 0
            stoch == IF FLt(l.STOCH_K, R(20)) /\ FGt(l.STOCH_K, l.STOCH_D) THEN 2
                     ELSE IF FGt(l.STOCH_K, R(80)) /\ FLt(l.STOCH_K, l.STOCH_D)
                     THEN -2 ELSE 0
            cci == IF FLt(l.CCI, R(-100)) THEN 1
                   ELSE IF FGt(l.CCI, R(100)) THEN -1 ELSE 0
            williams == IF FLt(l.WILLIAMS_R, R(-80)) THEN 1
                        ELSE IF FGt(l.WILLIAMS_R, R(-20)) THEN -1 ELSE 0
        IN  result.momentum_score = rsi + stoch + cci + williams

\* rules of both signs at once: RSI and Stochastic oversold, CCI and
\* Williams %R overbought
C12_Witness ==
    /\ Analysed
    /\ latest.RSI = R(25)
    /\ latest.STOCH_K = R(10)
    /\ latest.STOCH_D = R(5)
    /\ latest.CCI = R(150)
    /\ latest.WILLIAMS_R = R(-10)
    /\ result.momentum_score = 2

\* C13: for defined values of the five columns, the volume score is the sum
\* of the volume rule (+2 if volume > 1.5 * Volume_SMA, -1 if volume < 0.5 *
\* Volume_SMA, else 0), the OBV rule (+1 if OBV > OBV_EMA, otherwise -1) and
\* the MFI rule (+1 below 20, -1 above 80, else 0).
C13_VolumeScore ==
    (/\ Analysed
     /\ Defined({latest.Volume, latest.Volume_SMA, latest.OBV,
                 latest.OBV_EMA, latest.MFI})) =>
        LET l == latest
            vol == IF FGt(l.Volume, FMul(Fin(3, 2), l.Volume_SMA)) THEN 2
                   ELSE IF FLt(l.Volume, FMul(Fin(1, 2), l.Volume_SMA)) THEN -1
                   ELSE 0
            obv == IF FGt(l.OBV, l.OBV_EMA) THEN 1 ELSE -1
            mfi == IF FLt(l.MFI, R(20)) THEN 1
                   ELSE IF FGt(l.MFI, R(80)) THEN -1 ELSE 0
        IN  result.volume_score = vol + obv + mfi

\* volume just above one and a half times its average, OBV equal to its
\* average, MFI oversold
C13_Witness ==
    /\ Analysed
    /\ latest.Volume = R(752)
    /\ latest.Volume_SMA = R(501)
    /\ latest.OBV = latest.OBV_EMA
    /\ latest.OBV = R(5)
    /\ latest.MFI = R(15)
    /\ result.volume_score = 2

\* the annotation a occurs in the list of the returned analysis
Annotated(a) == \E k \in DOMAIN result.key_signals : result.key_signals[k] = a

\* C14: the volatility score is the sum of the Bollinger rule (+2 if close <
\* lower band, -2 if close > upper band), the near-support rule (+1 if
\* (close - support)/close*100 < 2) and the near-resistance rule (-1 if
\* (resistance - close)/close*100 < 2), the last two each on its own; a
\* Bollinger width below 5 and an ATR above 3% of the close add their
\* annotation and leave all four category scores as they are for any other
\* width and ATR.
C14_VolatilityScore ==
    Analysed =>
        LET l == latest
            pct(x) == FMul(FDiv(x, l.Close), R(100))
            boll == IF FLt(l.Close, l.BB_Low) THEN 2
                    ELSE IF FGt(l.Close, l.BB_High) THEN -2 ELSE 0
            sup == IF FLt(pct(FSub(l.Close, l.Support)), R(2)) THEN 1 ELSE 0
            res == IF FLt(pct(FSub(l.Resistance, l.Close)), R(2)) THEN -1 ELSE 0
        IN  /\ result.volatility_score = boll + sup + res
            /\ Annotated("(o) Low volatility - potential breakout soon")
                 = FLt(l.BB_Width, R(5))
            /\ Annotated("(!) High volatility (ATR: "
                         \o Format(pct(l.ATR), 2, FALSE) \o "%)")
                 = FGt(pct(l.ATR), R(3))
            /\ \A w \in Vals({4, 5, 20}), a \in Vals({0, 2, 3, 4}) :
                  LET m == [l EXCEPT !.BB_Width = w, !.ATR = a]
                  IN  /\ VolatilityScore(m) = result.volatility_score
                      /\ TrendScore(m, prev) = result.trend_score
                      /\ MomentumScore(m) = result.momentum_score
                      /\ VolumeScore(m) = result.volume_score

\* the close within 2% of both levels, a narrow band and a high ATR: both
\* level rules contribute and cancel, both annotations are made
C14_Witness ==
    /\ Analysed
    /\ latest.Close = R(100)
    /\ latest.Support = R(99)
    /\ latest.Resistance = R(101)
    /\ latest.BB_Low = R(90)
    /\ latest.BB_High = R(110)
    /\ latest.BB_Width = R(4)
    /\ latest.ATR = R(4)
    /\ result.volatility_score = 0
    /\ Annotated("(+) Near support level")
    /\ Annotated("(-) Near resistance level")
    /\ Annotated("(o) Low volatility - potential breakout soon")
    /\ Annotated("(!) High volatility (ATR: 4.00%)")

\* the RSI values a frame is compared with
RSIValues == {R(x) : x \in {0, 25, 30, 35, 40, 50, 60, 70, 75, 100}}

\* C15: with all other columns equal, the momentum score does not increase
\* when RSI increases: a frame with a higher RSI than the analysed one scores
\* no more, one with a lower RSI no less.
C15_RSIMonotone ==
    (Analysed /\ ~IsNaN(latest.RSI)) =>
        \A r \in RSIValues :
            LET m == MomentumScore([latest EXCEPT !.RSI = r])
            IN  /\ FLe(latest.RSI, r) => m <= result.momentum_score
                /\ FLe(r, latest.RSI) => m >= result.momentum_score

\* the example of the specification: RSI 25 scores two more than RSI 35
C15_Witness ==
    /\ Analysed
    /\ latest.RSI = R(25)
    /\ MomentumScore([latest EXCEPT !.RSI = R(35)]) = result.momentum_score - 2

\* C16: the three labels are functions of the category scores: trend_strength
\* is "Strong Uptrend" iff trend >= 4, "Weak Uptrend" iff 1..3, "Sideways" iff
\* -3..0, else "Downtrend"; momentum_status is "Bullish" iff momentum >= 3,
\* "Bearish" iff <= -3, else "Neutral"; volume_status is "Strong" iff volume
\* >= 2, "Weak" iff <= -1, else "Normal".
C16_Labels ==
    Analysed =>
        LET t == result.trend_score
            m == result.momentum_score
            v == result.volume_score
        IN  /\ result.trend_strength \in
                    {"Strong Uptrend", "Weak Uptrend", "Sideways", "Downtrend"}
            /\ (result.trend_strength = "Strong Uptrend") = (t >= 4)
            /\ (result.trend_strength = "Weak Uptrend") = (1 <= t /\ t <= 3)
            /\ (result.trend_strength = "Sideways") = (-3 <= t /\ t <= 0)
            /\ (result.trend_strength = "Downtrend") = (t < -3)
            /\ result.momentum_status \in {"Bullish", "Bearish", "Neutral"}
            /\ (result.momentum_status = "Bullish") = (m >= 3)
            /\ (result.momentum_status = "Bearish") = (m <= -3)
            /\ (result.momentum_status = "Neutral") = (-3 < m /\ m < 3)
            /\ result.volume_status \in {"Strong", "Weak", "Normal"}
            /\ (result.volume_status = "Strong") = (v >= 2)
            /\ (result.volume_status = "Weak") = (v <= -1)
            /\ (result.volume_status = "Normal") = (-1 < v /\ v < 2)

\* a trend score on a threshold: -3 is the lowest "Sideways"
C16_Witness ==
    /\ Analysed
    /\ result.trend_score = -3
    /\ result.trend_strength = "Sideways"

IsAnalysed(e) == e.ret.kind = "analysis"

\* C17: in a watchlist scan the loop visits every ticker in turn whatever
\* the earlier iterations did, and the result list holds exactly what the
\* analyses that returned a result returned: in order of the watchlist
\* during the loop, reordered by the final sort; an iteration yields a result
\* exactly when its own steps all went through.
C17_ScanIsolation ==
    scanStatus \in {"loop", "no data", "reported"} =>
        LET got == SelectSeq(visited, IsAnalysed)
        IN  /\ Len(visited) = scanPos - 1
            /\ \A k \in 1..Len(visited) :
                  /\ visited[k].ticker = watchlist[k]
                  /\ IsAnalysed(visited[k]) = (visited[k].cause = "analysed")
            /\ scanStatus # "loop" => Len(visited) = Len(watchlist)
            /\ Len(results) = Len(got)
            /\ scanStatus = "loop" =>
                  \A k \in 1..Len(got) : results[k] = got[k].ret
            /\ \E perm \in Permutations(1..Len(got)) :
                  \A k \in 1..Len(got) : results[k] = got[perm[k]].ret

\* a finished scan in which the first ticker's iteration raised and the
\* second ticker was analysed and reported
C17_Witness ==
    /\ scanStatus = "reported"
    /\ Len(visited) = 2
    /\ visited[1].cause \in {"progress message raised", "indicators raised"}
    /\ visited[2].cause = "analysed"
    /\ Len(results) = 1
    /\ results[1] = visited[2].ret

\* C18: every call attempts the fetch exactly once, as its first step; when
\* the download raised or came back empty the series is absent, the call
\* returns None and does nothing after the one fetch.
C18_FetchOnce ==
    result.kind # "pending" =>
        /\ Cardinality({k \in DOMAIN steps : steps[k] = "fetch"}) = 1
        /\ steps[1] = "fetch"
        /\ (fetched.outcome = "raise" \/ fetched.len = 0) =>
              /\ GetStockData(fetched) = NoData
              /\ result = None
              /\ steps = <<"fetch">>

\* a call whose download raised
C18_Witness ==
    /\ nCalls > 0
    /\ fetched.outcome = "raise"
    /\ result = None
    /\ steps = <<"fetch">>

\* the data a call fetched: what the download delivered, and the two rows the
\* analysis reads when a frame long enough was delivered
SeriesOf(e) ==
    IF e.fetched.outcome = "raise" \/ e.fetched.len < MinBars
    THEN <<e.fetched.outcome, e.fetched.len>>
    ELSE <<e.fetched, e.latest, e.prev>>

\* a return value without the name of the ticker
Unnamed(ret) == IF ret.kind = "analysis" THEN [ret EXCEPT !.ticker = <<>>] ELSE ret

C20_HelpTextBands ==
    Analysed => result.trading_signal = HelpInterpretation(result.total_score)

\* C21: every signal the reversal scan returns has a confidence within
\* [30, 95] that equals clamp(30, 95, 50 + int(1.2*vol_sma/volume*10) +
\* int(max(0, 20 - ADX))), and is returned only when the latest bar passes
\* all six gates: ADX defined and below 20; close below EMA20 and EMA50;
\* flat EMA20 slope; a hammer or a bullish engulfing; volume at least 1.2
\* times its average; ATR defined and positive.
C21_ReversalContract ==
    \A k \in 1..Len(revOut) : \A j \in 1..Len(revOut[k]) :
        LET s == revOut[k][j]
            b == revIn
            body == FAbs(FSub(b.close, b.open))
            lower == FSub(FMin(b.open, b.close), b.low)
            upper == FSub(b.high, FMax(b.open, b.close))
            volTerm == FMul(FDiv(FMul(Fin(6, 5), b.vol_sma), b.volume), R(10))
            adxTerm == IF FLt(b.adx, R(20)) THEN FSub(R(20), b.adx) ELSE R(0)
        IN  /\ s.confidence \in 30..95
            /\ IsFin(volTerm)
            /\ s.confidence =
                   Clamp(30, 95, 50 + Trunc(volTerm) + Trunc(adxTerm))
            /\ IsFin(b.adx) /\ FLt(b.adx, R(20))
            /\ FLt(b.close, b.ema20) /\ FLt(b.close, b.ema50)
            /\ b.flat
            /\ \/ FGt(lower, FMul(R(2), body)) /\ FLt(upper, body)
               \/ /\ FLt(b.prev_close, b.prev_open)
                  /\ FGt(b.close, b.open)
                  /\ FLe(b.open, b.prev_close)
                  /\ FGe(b.close, b.prev_open)
                  /\ FGt(FSub(b.close, b.open),
                         FSub(b.prev_open, b.prev_close))
            /\ FGe(b.volume, FMul(Fin(6, 5), b.vol_sma))
            /\ IsFin(b.atr) /\ FGt(b.atr, R(0))

\* the specification's example: ADX 15, a hammer, volume 1.3 times its
\* average; the signal is returned with confidence 50 + 9 + 5
C21_Witness ==
    /\ Len(revOut) = 1
    /\ Len(revOut[1]) = 1
    /\ revIn.adx = R(15)
    /\ revIn.volume = R(1300) /\ revIn.vol_sma = R(1000)
    /\ revOut[1][1].pattern = "hammer"
    /\ revOut[1][1].confidence = 64

\* C22: in dx, at every bar where +DI and -DI are defined, DX is
\* 100*|+DI - -DI|/(+DI + -DI), and exactly 0 when +DI + -DI is 0; every DX
\* value is finite, so every ADX value from bar n on is a mean of finite
\* values.
C22_DXDefined ==
    \A c \in 1..Len(dxOut) :
        LET o == dxOut[c]
        IN  \A k \in 1..Len(ohlc.df) :
                LET p == o.plus_di[k]
                    m == o.minus_di[k]
                    den == FAdd(p, m)
                IN  /\ IsFin(o.dx[k])
                    /\ (IsFin(p) /\ IsFin(m)) =>
                           IF den = R(0) THEN o.dx[k] = R(0)
                           ELSE o.dx[k] =
                                  FDiv(FMul(R(100), FAbs(FSub(p, m))), den)
                    /\ k >= ohlc.n => IsFin(o.adx[k])

\* a call in which +DI and -DI are both 0 at a bar where ADX is defined
\* (an inside bar: neither the high rose nor the low fell) and nonzero at
\* another
C22_Witness ==
    /\ Len(dxOut) = 1
    /\ \E k \in 1..Len(ohlc.df) :
           /\ k >= ohlc.n
           /\ dxOut[1].plus_di[k] = R(0)
           /\ dxOut[1].minus_di[k] = R(0)
           /\ dxOut[1].dx[k] = R(0)
    /\ \E k \in 1..Len(ohlc.df) :
           /\ IsFin(dxOut[1].plus_di[k])
           /\ dxOut[1].dx[k] # R(0)
           /\ dxOut[1].dx[k] # R(100)

\* C23: the composite score of every returned analysis lies between -20
\* and 20, whatever the indicator values of the latest and previous bar.
C23_ScoreWithinTwenty ==
    Analysed => (result.total_score >= -20 /\ result.total_score <= 20)

\* the list user u has in dict d; no entry reads as the empty list
ListOf(d, u) == IF u \in DOMAIN d THEN d[u] ELSE <<>>

NoDuplicates(list) ==
    \A j, k \in 1..Len(list) : j # k => list[j] # list[k]

\* C24: with the commands handled one at a time, no watchlist ever holds a
\* ticker twice, and the command just handled left every other user's
\* entry as it was.
C24_WatchlistsSound ==
    /\ \A u \in DOMAIN user_watchlists : NoDuplicates(user_watchlists[u])
    /\ \A c \in 1..Len(lastCmd) : \A u \in Users \ {lastCmd[c].user} :
           /\ (u \in DOMAIN user_watchlists) = (u \in DOMAIN lastCmd[c].before)
           /\ ListOf(user_watchlists, u) = ListOf(lastCmd[c].before, u)

\* both users hold two tickers, and the command just handled was a
\* /forceadd of a ticker its user already had, typed in lower case
C24_Witness ==
    /\ \A u \in Users : u \in DOMAIN user_watchlists
                          /\ Len(user_watchlists[u]) = 2
    /\ Len(lastCmd) = 1
    /\ lastCmd[1].cmd = "forceadd"
    /\ lastCmd[1].args = <<<<"b", "b", "c", "a">>>>
    /\ lastCmd[1].before = user_watchlists

\* C25: when /add and /forceadd handlers overlap, an /add being suspended
\* at its await after the membership test, then once every handler has
\* finished no watchlist holds a ticker twice.
C25_OverlapKeepsUnique ==
    suspended = <<>> =>
        \A u \in DOMAIN user_watchlists :
            \A j, k \in 1..Len(user_watchlists[u]) :
                j < k => user_watchlists[u][j] # user_watchlists[u][k]

\* C26: /add changes the list of its user only by appending the ticker, and
\* only when validate_ticker returned true; with no argument, with the
\* ticker already present, or with validation false or failing, the list
\* is the one from before.
C26_AddOnlyWhenValid ==
    \A c \in 1..Len(lastCmd) :
        LET r == lastCmd[c]
            old == ListOf(r.before, r.user)
            new == ListOf(user_watchlists, r.user)
        IN  r.cmd = "add" =>
                IF r.args # <<>> /\ ~Contains(old, Upper(r.args[1]))
                   /\ r.is_valid = "true"
                THEN new = Append(old, Upper(r.args[1]))
                ELSE new = old

\* an /add whose validation returned true lengthened the list to two
\* tickers
C26_Witness ==
    /\ Len(lastCmd) = 1
    /\ lastCmd[1].cmd = "add"
    /\ lastCmd[1].is_valid = "true"
    /\ Len(ListOf(user_watchlists, lastCmd[1].user)) = 2
    /\ Len(ListOf(lastCmd[1].before, lastCmd[1].user)) = 1

\* the calls of send_signal made so far
Sends == {k \in 1..Len(sendLog) : sendLog[k].what # "skipped"}

\* C27: over all runs, send_signal is called at most once for each key,
\* and a signal whose key is in the store is skipped, not sent.
C27_SentOncePerKey ==
    /\ \A j, k \in Sends : j # k => sendLog[j].key # sendLog[k].key
    /\ \A k \in 1..Len(sendLog) :
           sendLog[k].stored => sendLog[k].what = "skipped"

\* C28: a key enters the store only with a delivery that Telegram answered
\* ok; a failed or raising send_signal leaves it out; and a run that has
\* ended has gone through every signal of its scan.
C28_RecordOnlyDelivered ==
    /\ \A k \in 1..Len(sendLog) :
           /\ (sendLog[k].recorded /\ ~sendLog[k].stored)
                  => sendLog[k].what = "ok"
           /\ sendLog[k].what \in {"not ok", "raises"}
                  => ~sendLog[k].recorded
    /\ jobStatus \in {"returned", "raised"} =>
           Cardinality({k \in 1..Len(sendLog) : sendLog[k].job = nJobs})
               = Len(signals)

\* C29: every chunk of _split_message is non-empty and at most max_length
\* characters long, and every iteration that goes round the loop again
\* leaves less text than it found (so the loop ends).
C29_ChunksAndProgress ==
    /\ [](\A k \in 1..Len(chunks) :
             Len(chunks[k]) >= 1 /\ Len(chunks[k]) <= max_length)
    /\ [][splitStatus' = "loop" => Len(text') < Len(text)]_vars

\* C30: for a BUY or STRONG BUY analysis with ATR > 0 and support <= close,
\* stop-loss < support <= close < target, and the risk:reward ratio is
\* above 0 and at most 2, being 2 only when the close is at the support.
C30_LevelsOrdered ==
    (/\ Analysed
     /\ result.trading_signal \in BuySignals
     /\ FGt(latest.ATR, R(0))
     /\ FLe(latest.Support, latest.Close)) =>
        /\ FLt(StopLoss(latest), latest.Support)
        /\ FLt(latest.Close, Target(latest))
        /\ result.stop_loss = "Rp " \o Format(StopLoss(latest), 0, TRUE)
        /\ result.target_price = "Rp " \o Format(Target(latest), 0, TRUE)
        /\ FGt(RiskReward(latest), R(0))
        /\ FLe(RiskReward(latest), R(2))
        /\ RiskReward(latest) = R(2) => latest.Close = latest.Support

\* a BUY analysis with the close at the support, ratio exactly 2
C30_Witness ==
    /\ Analysed
    /\ result.trading_signal \in BuySignals
    /\ FGt(latest.ATR, R(0))
    /\ latest.Close = latest.Support
    /\ RiskReward(latest) = R(2)
    /\ result.risk_reward = "1:2.00"

====
